---------------------------- MODULE Spec2Model ----------------------------
(***************************************************************************)
(* Five Crowns: meld validation (five_crowns.py) and meld search           *)
(* (meld_finder.py).                                                       *)
(*                                                                         *)
(* A card is a record [rank, suit].  A hand is a sequence of cards; the    *)
(* position of a card in the hand stands for the identity (id()) of the    *)
(* Python object, so two equal cards at different positions are different  *)
(* objects.  A meld found in a hand is a sequence of hand positions.       *)
(***************************************************************************)
EXTENDS Integers, Sequences, FiniteSets, TLC

VARIABLES hand,       \* the card list handed to the functions (Player.hand)
          wild_rank,  \* the round's wild rank
          ret,        \* the last call and what it returned
          state       \* GameEngine.state, NoEngine while no engine is built

vars == <<hand, wild_rank, ret, state>>

(***************************************************************************)
(* Card model                                                              *)
(***************************************************************************)
RANK_ORDER == <<"3", "4", "5", "6", "7", "8", "9", "10", "J", "Q", "K">>

RANK_VALUES(rank) == (CHOOSE i \in 1..Len(RANK_ORDER) : RANK_ORDER[i] = rank) - 1

Card(rank, suit) == [rank |-> rank, suit |-> suit]

create_joker == Card("Joker", "JOKER")

\* int(card.rank) for the ranks whose text is a number
IntOfRank(rank) ==
    CASE rank = "3" -> 3 [] rank = "4" -> 4 [] rank = "5" -> 5
      [] rank = "6" -> 6 [] rank = "7" -> 7 [] rank = "8" -> 8
      [] rank = "9" -> 9 [] rank = "10" -> 10

(***************************************************************************)
(* Sequence helpers standing for Python list idioms                        *)
(***************************************************************************)
Range(s) == {s[i] : i \in DOMAIN s}

RECURSIVE FlattenFirst(_, _)
\* ss[1] \o ... \o ss[n]
FlattenFirst(ss, n) == IF n = 0 THEN <<>> ELSE FlattenFirst(ss, n - 1) \o ss[n]

\* the concatenation of a sequence of sequences (nested for-loops appending)
Flatten(ss) == FlattenFirst(ss, Len(ss))

RECURSIVE SumFirst(_, _)
\* s[1] + ... + s[n]
SumFirst(s, n) == IF n = 0 THEN 0 ELSE SumFirst(s, n - 1) + s[n]

\* sum(s)
SumSeq(s) == SumFirst(s, Len(s))

RankKey(c) == RANK_VALUES(c.rank)

RECURSIVE InsertByRank(_, _)
\* x inserted after the last card whose rank ordinal is <= x's (stable)
InsertByRank(s, x) ==
    IF Len(s) = 0 THEN <<x>>
    ELSE IF RankKey(s[Len(s)]) <= RankKey(x) THEN Append(s, x)
    ELSE Append(InsertByRank(SubSeq(s, 1, Len(s) - 1), x), s[Len(s)])

\* the non-wild cards left in the order of the grouping
SortedByRank_AsGiven(s) == s

RECURSIVE SortedByRank(_)
\* sorted(s, key=lambda c: RANK_VALUES[c.rank]): ascending and stable
SortedByRank(s) ==
    IF Len(s) = 0 THEN <<>>
    ELSE InsertByRank(SortedByRank(SubSeq(s, 1, Len(s) - 1)), s[Len(s)])

(***************************************************************************)
(* MeldValidator                                                           *)
(***************************************************************************)
\* is_wild without the Joker test
is_wild_RankOnly(card, wr) == card.rank = wr

is_wild(card, wr) == card.rank = wr \/ card.rank = "Joker"

\* ValueError raised instead of a value returned
ValueError == "ValueError"

\* get_wild_card returning a rank for round 12 too
get_wild_card_NoUpperCheck(round_number) ==
    IF round_number < 1 THEN ValueError
    ELSE RANK_ORDER[((round_number - 1) % Len(RANK_ORDER)) + 1]

\* RANK_ORDER[round_number - 1] of the 0-based list is RANK_ORDER[round_number]
\* of the sequence
get_wild_card(round_number) ==
    IF round_number < 1 \/ round_number > 11 THEN ValueError
    ELSE RANK_ORDER[round_number]

\* is_valid_book without the duplicate-suit test (lines 118-122)
is_valid_book_NoSuitCheck(cards, wr) ==
    IF Len(cards) < 3 THEN FALSE
    ELSE LET non_wilds == SelectSeq(cards, LAMBDA c : ~is_wild(c, wr)) IN
         IF Len(non_wilds) = 0 THEN FALSE
         ELSE \A i \in DOMAIN non_wilds : non_wilds[i].rank = non_wilds[1].rank

is_valid_book(cards, wr) ==
    IF Len(cards) < 3 THEN FALSE
    ELSE LET non_wilds == SelectSeq(cards, LAMBDA c : ~is_wild(c, wr)) IN
         IF Len(non_wilds) = 0 THEN FALSE
         ELSE LET target_rank == non_wilds[1].rank IN
              IF ~(\A i \in DOMAIN non_wilds : non_wilds[i].rank = target_rank)
              THEN FALSE
              \* suits_seen: a suit met again at a later position
              ELSE IF \E i, j \in DOMAIN non_wilds :
                         i < j /\ non_wilds[i].suit = non_wilds[j].suit
              THEN FALSE
              ELSE TRUE

\* the locals of is_valid_run once the non-wild cards are known to be of one
\* suit (lines 149-200)
RunFacts(cards, non_wilds, wr) ==
    LET sorted_cards == SortedByRank(non_wilds)
        n == Len(sorted_cards)
        wild_count == Len(cards) - Len(non_wilds)
        wilds_needed_for_gaps ==
            SumSeq([i \in 1..(n - 1) |->
                      RANK_VALUES(sorted_cards[i + 1].rank)
                        - RANK_VALUES(sorted_cards[i].rank) - 1])
        lowest_rank_value == RANK_VALUES(sorted_cards[1].rank)
        highest_rank_value == RANK_VALUES(sorted_cards[n].rank)
    IN [duplicate_rank |-> \E i, j \in 1..n :
                              i < j /\ sorted_cards[i].rank = sorted_cards[j].rank,
        wild_count |-> wild_count,
        wilds_needed_for_gaps |-> wilds_needed_for_gaps,
        remaining_wilds |-> wild_count - wilds_needed_for_gaps,
        min_span |-> highest_rank_value - lowest_rank_value + 1,
        lowest_rank_value |-> lowest_rank_value,
        highest_rank_value |-> highest_rank_value,
        has_rank_k |-> \E i \in DOMAIN cards : cards[i].rank = "K",
        has_rank_3_as_start |->
            IF lowest_rank_value = 0 THEN TRUE
            ELSE IF wr = "3"
                 THEN (\E i \in DOMAIN cards : cards[i].rank = "3")
                        /\ lowest_rank_value = 1
                 ELSE FALSE]

\* RunTail without the test that stops a wild beyond a K (lines 212-214)
RunTail_NoKCheck(cards, f) ==
    IF f.duplicate_rank THEN FALSE
    ELSE IF f.wilds_needed_for_gaps > f.wild_count THEN FALSE
    ELSE IF Len(cards) # f.min_span + f.remaining_wilds THEN FALSE
    ELSE IF f.remaining_wilds > 0
         THEN IF f.has_rank_3_as_start THEN FALSE
              ELSE IF f.remaining_wilds
                        > f.lowest_rank_value + (10 - f.highest_rank_value)
              THEN FALSE
              ELSE TRUE
         ELSE TRUE

\* RunTail without the test that the wilds fill the gaps (lines 166-167)
RunTail_NoGapCheck(cards, f) ==
    IF f.duplicate_rank THEN FALSE
    ELSE IF Len(cards) # f.min_span + f.remaining_wilds THEN FALSE
    ELSE IF f.remaining_wilds > 0
         THEN IF f.has_rank_k /\ f.highest_rank_value = 10 THEN FALSE
              ELSE IF f.has_rank_3_as_start THEN FALSE
              ELSE IF f.remaining_wilds
                        > f.lowest_rank_value + (10 - f.highest_rank_value)
              THEN FALSE
              ELSE TRUE
         ELSE TRUE

\* lines 166-223, with the locals in f
RunTail(cards, f) ==
    IF f.duplicate_rank THEN FALSE
    ELSE IF f.wilds_needed_for_gaps > f.wild_count THEN FALSE
    ELSE IF Len(cards) # f.min_span + f.remaining_wilds THEN FALSE
    ELSE IF f.remaining_wilds > 0
         THEN IF f.has_rank_k /\ f.highest_rank_value = 10 THEN FALSE
              ELSE IF f.has_rank_3_as_start THEN FALSE
              ELSE IF f.remaining_wilds
                        > f.lowest_rank_value + (10 - f.highest_rank_value)
              THEN FALSE
              ELSE TRUE
         ELSE TRUE

\* RunExit with the expected length taken as min_span + wild_count
RunExit_LengthCountsGaps(cards, f) ==
    IF f.duplicate_rank THEN 156
    ELSE IF f.wilds_needed_for_gaps > f.wild_count THEN 167
    ELSE IF Len(cards) # f.min_span + f.wild_count THEN 179
    ELSE 223

\* lines 152-223: the line of the return statement that ends the call
RunExit(cards, f) ==
    IF f.duplicate_rank THEN 156
    ELSE IF f.wilds_needed_for_gaps > f.wild_count THEN 167
    ELSE IF Len(cards) # f.min_span + f.remaining_wilds THEN 179
    ELSE IF f.remaining_wilds > 0
         THEN IF f.has_rank_k /\ f.highest_rank_value = 10 THEN 214
              ELSE IF f.has_rank_3_as_start THEN 217
              ELSE IF f.remaining_wilds
                        > f.lowest_rank_value + (10 - f.highest_rank_value)
              THEN 221
              ELSE 223
         ELSE 223

\* is_valid_run followed to its return statement: the line it returns at
is_valid_run_exit(cards, wr) ==
    IF Len(cards) < 3 THEN 135
    ELSE LET non_wilds == SelectSeq(cards, LAMBDA c : ~is_wild(c, wr)) IN
         IF Len(non_wilds) = 0 THEN 141
         ELSE LET target_suit == non_wilds[1].suit IN
              IF ~(\A i \in DOMAIN non_wilds : non_wilds[i].suit = target_suit)
              THEN 146
              ELSE RunExit(cards, RunFacts(cards, non_wilds, wr))

\* is_valid_run asking for 4 cards where the code asks for 3 (line 134)
is_valid_run_MinFour(cards, wr) ==
    IF Len(cards) < 4 THEN FALSE
    ELSE LET non_wilds == SelectSeq(cards, LAMBDA c : ~is_wild(c, wr)) IN
         IF Len(non_wilds) = 0 THEN FALSE
         ELSE LET target_suit == non_wilds[1].suit IN
              IF ~(\A i \in DOMAIN non_wilds : non_wilds[i].suit = target_suit)
              THEN FALSE
              ELSE RunTail(cards, RunFacts(cards, non_wilds, wr))

is_valid_run(cards, wr) ==
    IF Len(cards) < 3 THEN FALSE
    ELSE LET non_wilds == SelectSeq(cards, LAMBDA c : ~is_wild(c, wr)) IN
         IF Len(non_wilds) = 0 THEN FALSE
         ELSE LET target_suit == non_wilds[1].suit IN
              IF ~(\A i \in DOMAIN non_wilds : non_wilds[i].suit = target_suit)
              THEN FALSE
              ELSE RunTail(cards, RunFacts(cards, non_wilds, wr))

\* Python's None
None == "None"

ValidationResult(is_valid, error_message) ==
    [is_valid |-> is_valid, error_message |-> error_message]

\* validate_all_melds reporting the first meld that is too small before any
\* meld that is neither book nor run
ValidateFrom_SizesFirst(melds, wr, i) ==
    LET small == {k \in i..Len(melds) : Len(melds[k]) < 3}
        bad == {k \in i..Len(melds) :
                  ~(is_valid_book(melds[k], wr) \/ is_valid_run(melds[k], wr))}
        first(S) == CHOOSE k \in S : \A m \in S : k <= m
    IN IF small # {}
       THEN ValidationResult(FALSE,
              "Group " \o ToString(first(small)) \o " has only "
                \o ToString(Len(melds[first(small)])) \o " cards (need 3+)")
       ELSE IF bad # {}
       THEN ValidationResult(FALSE,
              "Group " \o ToString(first(bad)) \o " is neither a valid book nor run")
       ELSE ValidationResult(TRUE, None)

RECURSIVE ValidateFrom(_, _, _)
\* lines 71-86: the for-loop from meld i on (i counts from 1, as i+1 does in
\* the messages)
ValidateFrom(melds, wr, i) ==
    IF i > Len(melds) THEN ValidationResult(TRUE, None)
    ELSE LET meld == melds[i] IN
         IF Len(meld) < 3
         THEN ValidationResult(FALSE,
                "Group " \o ToString(i) \o " has only "
                  \o ToString(Len(meld)) \o " cards (need 3+)")
         ELSE LET is_book == is_valid_book(meld, wr)
                  is_run == is_valid_run(meld, wr)
              IN IF ~(is_book \/ is_run)
                 THEN ValidationResult(FALSE,
                        "Group " \o ToString(i) \o " is neither a valid book nor run")
                 ELSE ValidateFrom(melds, wr, i + 1)

\* validate_all_melds looking at the first meld only
validate_all_melds_FirstOnly(melds, wild_card_rank) ==
    IF Len(melds) = 0 THEN ValidationResult(TRUE, None)
    ELSE ValidateFrom(SubSeq(melds, 1, 1), wild_card_rank, 1)

validate_all_melds(melds, wild_card_rank) ==
    IF Len(melds) = 0 THEN ValidationResult(TRUE, None)
    ELSE ValidateFrom(melds, wild_card_rank, 1)

(***************************************************************************)
(* MeldFinder.  The cards of a hand carry their object identity in the     *)
(* field id; Card.__eq__ and __hash__ look at rank and suit only.          *)
(***************************************************************************)
\* the objects of a hand: the card at position i is the object with id i
Objects(h) == [i \in DOMAIN h |-> [rank |-> h[i].rank, suit |-> h[i].suit, id |-> i]]

Ids(cards) == {cards[i].id : i \in DOMAIN cards}

RECURSIVE combinations(_, _)
\* itertools.combinations(s, k), in its order (lexicographic by position)
combinations(s, k) ==
    IF k = 0 THEN << <<>> >>
    ELSE IF Len(s) < k THEN <<>>
    ELSE LET rest == combinations(Tail(s), k - 1)
         IN [i \in DOMAIN rest |-> <<Head(s)>> \o rest[i]]
              \o combinations(Tail(s), k)

\* wilds = the wild cards of the hand, in hand order
WildsOf(h, wr) == SelectSeq(h, LAMBDA c : is_wild(c, wr))

NonWildsOf(h, wr) == SelectSeq(h, LAMBDA c : ~is_wild(c, wr))

\* rank_groups: a dict keeps its keys in the order of first insertion
RankGroups(h, wr) ==
    LET nw == NonWildsOf(h, wr)
        firsts == SelectSeq([i \in DOMAIN nw |-> i],
                         LAMBDA i : \A j \in 1..(i - 1) : nw[j].rank # nw[i].rank)
    IN [g \in DOMAIN firsts |->
          SelectSeq(nw, LAMBDA c : c.rank = nw[firsts[g]].rank)]

\* suit_groups, likewise
SuitGroups(h, wr) ==
    LET nw == NonWildsOf(h, wr)
        firsts == SelectSeq([i \in DOMAIN nw |-> i],
                         LAMBDA i : \A j \in 1..(i - 1) : nw[j].suit # nw[i].suit)
    IN [g \in DOMAIN firsts |->
          SelectSeq(nw, LAMBDA c : c.suit = nw[firsts[g]].suit)]

\* for wild_combo in combinations(wilds, num_wilds): base + list(wild_combo)
PlusWilds(base, wilds, num_wilds) ==
    LET wc == combinations(wilds, num_wilds)
    IN [k \in DOMAIN wc |-> base \o wc[k]]

ValidBooks(cands, wr) == SelectSeq(cands, LAMBDA m : is_valid_book(m, wr))

ValidRuns(cands, wr) == SelectSeq(cands, LAMBDA m : is_valid_run(m, wr))

\* lines 34-49: combinations of 3 or more cards of one rank, bare and with wilds
BooksOfRank(cards_of_rank, wilds, wr) ==
    Flatten([t \in 1..(Len(cards_of_rank) - 2) |->
      LET num_cards == t + 2
          combos == combinations(cards_of_rank, num_cards)
      IN Flatten([ci \in DOMAIN combos |->
           LET book == combos[ci]
           IN ValidBooks(<<book>>, wr)
                \o Flatten([num_wilds \in 1..Len(wilds) |->
                     IF Len(book) + num_wilds < 3 THEN <<>>
                     ELSE ValidBooks(PlusWilds(book, wilds, num_wilds), wr)])])])

\* lines 52-58: the first card of a rank with 2 or more wilds
BooksMostlyWild(cards_of_rank, wilds, wr) ==
    LET firstcard == SubSeq(cards_of_rank, 1, 1)
    IN Flatten([ci \in DOMAIN firstcard |->
         Flatten([t \in 1..(Len(wilds) - 1) |->
           LET num_wilds == t + 1
           IN ValidBooks(PlusWilds(<<firstcard[ci]>>, wilds, num_wilds), wr)])])

find_all_books(h, wr) ==
    LET wilds == WildsOf(h, wr)
        rank_groups == RankGroups(h, wr)
    IN Flatten([g \in DOMAIN rank_groups |-> BooksOfRank(rank_groups[g], wilds, wr)])
         \o Flatten([g \in DOMAIN rank_groups |->
                       BooksMostlyWild(rank_groups[g], wilds, wr)])

\* lines 83-101: combinations of 3 or more cards of one suit, bare and with wilds
RunsOfSuit(cards_of_suit, wilds, wr) ==
    LET sorted_cards == SortedByRank(cards_of_suit)
    IN Flatten([t \in 1..(Len(sorted_cards) - 2) |->
         LET combo_size == t + 2
             combos == combinations(sorted_cards, combo_size)
         IN Flatten([ci \in DOMAIN combos |->
              LET run == combos[ci]
              IN ValidRuns(<<run>>, wr)
                   \o Flatten([num_wilds \in 1..Len(wilds) |->
                        ValidRuns(PlusWilds(run, wilds, num_wilds), wr)])])])

Min(a, b) == IF a < b THEN a ELSE b

\* the second loop taking 1 card of the suit only: range(1, min(2, ...))
RunsMostlyWild_OneReal(cards_of_suit, wilds, wr) ==
    SelectSeq(
      Flatten([ci \in DOMAIN cards_of_suit |->
        Flatten([t \in 1..(Len(wilds) - 1) |->
          PlusWilds(<<cards_of_suit[ci]>>, wilds, t + 1)])]),
      LAMBDA run : Len(run) >= 3 /\ is_valid_run(run, wr))

\* lines 104-111: 1 or 2 cards of one suit with enough wilds to reach 3 cards
RunsMostlyWild(cards_of_suit, wilds, wr) ==
    Flatten([combo_size \in 1..(Min(3, Len(cards_of_suit) + 1) - 1) |->
      LET combos == combinations(cards_of_suit, combo_size)
      IN Flatten([ci \in DOMAIN combos |->
           Flatten([t \in 1..(Len(wilds) + 1 - (3 - combo_size)) |->
             LET num_wilds == t + (3 - combo_size) - 1
                 cands == PlusWilds(combos[ci], wilds, num_wilds)
             IN SelectSeq(cands, LAMBDA run : Len(run) >= 3 /\ is_valid_run(run, wr))])])])

find_all_runs(h, wr) ==
    LET wilds == WildsOf(h, wr)
        suit_groups == SuitGroups(h, wr)
    IN Flatten([g \in DOMAIN suit_groups |-> RunsOfSuit(suit_groups[g], wilds, wr)])
         \o Flatten([g \in DOMAIN suit_groups |->
                       RunsMostlyWild(suit_groups[g], wilds, wr)])

find_all_melds(h, wr) == find_all_books(h, wr) \o find_all_runs(h, wr)

\* the key on which candidate melds are compared for deduplication
_cards_to_frozenset(cards) == {<<cards[i].rank, cards[i].suit>> : i \in DOMAIN cards}

RECURSIVE DedupFrom(_, _, _, _)
\* lines 145-150: the for-loop from candidate i on; a meld is appended to
\* unique_melds unless its key is in seen
DedupFrom(all_melds, i, seen, unique_melds) ==
    IF i > Len(all_melds) THEN unique_melds
    ELSE LET meld_set == _cards_to_frozenset(all_melds[i])
         IN IF meld_set \notin seen
            THEN DedupFrom(all_melds, i + 1, seen \cup {meld_set},
                           Append(unique_melds, all_melds[i]))
            ELSE DedupFrom(all_melds, i + 1, seen, unique_melds)

\* lines 143-150: seen = set(), unique_melds = []
unique_melds_of(all_melds) == DedupFrom(all_melds, 1, {}, <<>>)

_card_value(card, wr) ==
    IF is_wild(card, wr) THEN 20
    ELSE IF card.rank \in {"J", "Q", "K"} THEN 10
    ELSE IntOfRank(card.rank)

\* AIStrategy._get_card_points
_get_card_points(card, wr) ==
    IF is_wild(card, wr) THEN 20
    ELSE IF card.rank \in {"J", "Q", "K"} THEN 10
    ELSE IntOfRank(card.rank)

_calculate_hand_value(cards, wr) ==
    SumSeq([i \in DOMAIN cards |-> _card_value(cards[i], wr)])

\* used_cards = set(id(card) for meld in melds for card in meld)
UsedIds(melds) == UNION {Ids(melds[i]) : i \in DOMAIN melds}

_calculate_remaining_points(h, melds, wr) ==
    LET used_cards == UsedIds(melds)
        remaining == SelectSeq(h, LAMBDA c : c.id \notin used_cards)
    IN _calculate_hand_value(remaining, wr)

\* the overlap test looking at the first card of the meld only
Overlaps_FirstCard(meld, used_cards) == meld[1].id \in used_cards

\* the overlap test looking at the last card of the meld only
Overlaps_LastCard(meld, used_cards) == meld[Len(meld)].id \in used_cards

\* any(id(card) in used_cards for card in meld)
Overlaps(meld, used_cards) == \E i \in DOMAIN meld : meld[i].id \in used_cards

RECURSIVE ScanBestMeld(_, _, _, _, _, _)
\* lines 202-214: the for-loop of one greedy pass, from candidate i on;
\* best_meld is a position in all_melds, 0 for None
ScanBestMeld(all_melds, wr, used_cards, i, best_meld, best_points_saved) ==
    IF i > Len(all_melds) THEN best_meld
    ELSE IF Overlaps(all_melds[i], used_cards)
    THEN ScanBestMeld(all_melds, wr, used_cards, i + 1, best_meld, best_points_saved)
    ELSE LET points_saved == _calculate_hand_value(all_melds[i], wr)
         IN IF points_saved > best_points_saved
            THEN ScanBestMeld(all_melds, wr, used_cards, i + 1, i, points_saved)
            ELSE ScanBestMeld(all_melds, wr, used_cards, i + 1,
                              best_meld, best_points_saved)

RECURSIVE GreedyLoop(_, _, _, _)
\* lines 198-222: the while-loop
GreedyLoop(all_melds, wr, used_cards, result) ==
    LET best_meld == ScanBestMeld(all_melds, wr, used_cards, 1, 0, 0)
    IN IF best_meld = 0 THEN result
       ELSE GreedyLoop(all_melds, wr,
                       used_cards \cup Ids(all_melds[best_meld]),
                       Append(result, all_melds[best_meld]))

_greedy_meld_selection(h, all_melds, wr, current_melds) ==
    GreedyLoop(all_melds, wr, UsedIds(current_melds), current_melds)

RECURSIVE TryStarts(_, _, _, _, _)
\* lines 166-180: each unique meld as forced first pick, then no forced pick;
\* best = [melds, remaining_points]
TryStarts(h, unique_melds, wr, i, best) ==
    LET current == IF i <= Len(unique_melds) THEN <<unique_melds[i]>> ELSE <<>>
        result == _greedy_meld_selection(h, unique_melds, wr, current)
        remaining_points == _calculate_remaining_points(h, result, wr)
        better == IF remaining_points < best.remaining_points
                  THEN [melds |-> result, remaining_points |-> remaining_points]
                  ELSE best
    IN IF i > Len(unique_melds) THEN better
       ELSE TryStarts(h, unique_melds, wr, i + 1, better)

\* The result (melds, remaining_points), with the locals all_melds and
\* unique_melds beside it.  _find_best_combination_recursive (lines 157-163) is
\* called and its result dropped; it assigns nothing the caller reads, so it
\* adds nothing here.
find_best_meld_combination(h, wr) ==
    IF Len(h) = 0
    THEN [melds |-> <<>>, remaining_points |-> 0,
          all_melds |-> <<>>, unique_melds |-> <<>>]
    ELSE LET all_melds == find_all_melds(h, wr)
             unique_melds == unique_melds_of(all_melds)
             best == TryStarts(h, unique_melds, wr, 1,
                               [melds |-> <<>>,
                                remaining_points |-> _calculate_hand_value(h, wr)])
         IN [melds |-> best.melds, remaining_points |-> best.remaining_points,
             all_melds |-> all_melds, unique_melds |-> unique_melds]

\* can_go_out answering yes with the melds found, whatever is left over
can_go_out_LeftoverIgnored(h, wr) ==
    [ok |-> TRUE, melds |-> find_best_meld_combination(h, wr).melds]

\* (can_go_out, melds_or_none); None is the string "None"
can_go_out(h, wr) ==
    LET best == find_best_meld_combination(h, wr)
    IN IF best.remaining_points = 0
       THEN [ok |-> TRUE, melds |-> best.melds]
       ELSE [ok |-> FALSE, melds |-> "None"]

(***************************************************************************)
(* Deck, Player, GameState, GameEngine (game_engine.py).  Cards in the     *)
(* engine are compared by rank and suit (Card.__eq__), so the engine's     *)
(* lists hold cards without an id.                                         *)
(***************************************************************************)
\* Deck._initialize_deck: ranks and suits
ranks == <<"3", "4", "5", "6", "7", "8", "9", "10", "J", "Q", "K">>

suits == <<"SPADES", "HEARTS", "CLUBS", "DIAMONDS", "STARS">>

\* lines 31-33: one pass of the outer loop, every rank in every suit
OneCopy ==
    Flatten([r \in DOMAIN ranks |->
               [s \in DOMAIN suits |-> Card(ranks[r], suits[s])]])

\* a deck with 5 jokers
_initialize_deck_FiveJokers ==
    Flatten([copy \in 1..2 |-> OneCopy]) \o [j \in 1..5 |-> create_joker]

\* Deck.cards after _initialize_deck
_initialize_deck ==
    Flatten([copy \in 1..2 |-> OneCopy]) \o [j \in 1..6 |-> create_joker]

\* Deck.__init__
Deck == [cards |-> _initialize_deck, discard_pile |-> <<>>]

RECURSIVE PopN(_, _, _)
\* lines 48-50: num_cards times dealt_cards.append(self.cards.pop())
PopN(cards, num_cards, dealt_cards) ==
    IF num_cards = 0 THEN [dealt_cards |-> dealt_cards, cards |-> cards]
    ELSE PopN(SubSeq(cards, 1, Len(cards) - 1), num_cards - 1,
              Append(dealt_cards, cards[Len(cards)]))

\* Deck.deal: the cards dealt and the cards left, or ValueError
deal(cards, num_cards) ==
    IF Len(cards) < num_cards THEN ValueError
    ELSE PopN(cards, num_cards, <<>>)

Player(name, is_human) ==
    [name |-> name, hand |-> <<>>, score |-> 0, is_human |-> is_human]

\* Player.calculate_hand_value counting a wild card as 10
calculate_hand_value_WildTen(player_hand, wr) ==
    SumSeq([i \in DOMAIN player_hand |->
               IF is_wild(player_hand[i], wr) THEN 10
               ELSE IF player_hand[i].rank \in {"J", "Q", "K"} THEN 10
               ELSE IntOfRank(player_hand[i].rank)])

\* Player.calculate_hand_value: total += 20, 10 or int(card.rank) per card
RECURSIVE HandValueFrom(_, _, _, _)
HandValueFrom(player_hand, wr, i, total) ==
    IF i > Len(player_hand) THEN total
    ELSE LET card == player_hand[i]
         IN IF is_wild(card, wr)
            THEN HandValueFrom(player_hand, wr, i + 1, total + 20)
            ELSE IF card.rank \in {"J", "Q", "K"}
            THEN HandValueFrom(player_hand, wr, i + 1, total + 10)
            ELSE HandValueFrom(player_hand, wr, i + 1,
                               total + IntOfRank(card.rank))

calculate_hand_value(player_hand, wr) == HandValueFrom(player_hand, wr, 1, 0)

\* Player.sort_hand: suit_order.get(c.suit, 99)
suit_order(suit) ==
    CASE suit = "SPADES" -> 0 [] suit = "HEARTS" -> 1 [] suit = "CLUBS" -> 2
      [] suit = "DIAMONDS" -> 3 [] suit = "STARS" -> 4 [] suit = "JOKER" -> 5
      [] OTHER -> 99

\* Player.sort_hand: MeldValidator.RANK_VALUES.get(c.rank, -1)
RankValueOrMinus1(rank) ==
    IF rank \in Range(RANK_ORDER) THEN RANK_VALUES(rank) ELSE 0 - 1

\* the sort key of c is at most the sort key of d (tuples compare in order)
SortKeyLeq(c, d) ==
    \/ suit_order(c.suit) < suit_order(d.suit)
    \/ /\ suit_order(c.suit) = suit_order(d.suit)
       /\ RankValueOrMinus1(c.rank) <= RankValueOrMinus1(d.rank)

RECURSIVE InsertBySuitRank(_, _)
InsertBySuitRank(s, x) ==
    IF Len(s) = 0 THEN <<x>>
    ELSE IF SortKeyLeq(s[Len(s)], x) THEN Append(s, x)
    ELSE Append(InsertBySuitRank(SubSeq(s, 1, Len(s) - 1), x), s[Len(s)])

RECURSIVE sort_hand(_)
\* Player.sort_hand: list.sort is ascending and stable
sort_hand(h) ==
    IF Len(h) = 0 THEN <<>>
    ELSE InsertBySuitRank(sort_hand(SubSeq(h, 1, Len(h) - 1)), h[Len(h)])

\* GameEngine.__init__
GameEngine(player_names) ==
    [round_number |-> 1,
     players |-> [i \in DOMAIN player_names |->
                    Player(player_names[i][1], player_names[i][2])],
     deck |-> Deck,
     current_player_index |-> 0,
     round_over |-> FALSE,
     game_over |-> FALSE]

\* GameState.get_wild_rank
get_wild_rank(st) == get_wild_card(st.round_number)

\* GameState.get_cards_per_hand
get_cards_per_hand(st) == st.round_number + 2

\* GameState.current_player: the position of the current player in players,
\* counted from 1
current_player(st) == st.current_player_index + 1

RECURSIVE DealTo(_, _, _, _)
\* lines 170-172: players i and later get their cards and sort them
DealTo(players, cards, i, cards_to_deal) ==
    IF i > Len(players) THEN [players |-> players, cards |-> cards]
    ELSE LET d == deal(cards, cards_to_deal)
         IN DealTo([players EXCEPT ![i].hand = sort_hand(d.dealt_cards)],
                   d.cards, i + 1, cards_to_deal)

\* start_new_round without the card flipped onto the discard pile
start_new_round_NoFlip(st, shuffled) ==
    IF st.round_number > 11 THEN [st EXCEPT !.game_over = TRUE]
    ELSE LET dealt == DealTo([i \in DOMAIN st.players |->
                                [st.players[i] EXCEPT !.hand = <<>>]],
                             shuffled, 1, get_cards_per_hand(st))
         IN [st EXCEPT !.players = dealt.players,
                       !.deck = [cards |-> dealt.cards, discard_pile |-> <<>>],
                       !.round_over = FALSE,
                       !.current_player_index = 0]

\* GameState.start_new_round; shuffled is the order Deck.shuffle leaves the
\* new deck in.  A deck of 116 cards covers the deal (at most 13 cards a
\* player) and the draw, so neither raises.
start_new_round(st, shuffled) ==
    IF st.round_number > 11 THEN [st EXCEPT !.game_over = TRUE]
    ELSE LET dealt == DealTo([i \in DOMAIN st.players |->
                                [st.players[i] EXCEPT !.hand = <<>>]],
                             shuffled, 1, get_cards_per_hand(st))
             top == dealt.cards[Len(dealt.cards)]
         IN [st EXCEPT !.players = dealt.players,
                       !.deck = [cards |-> SubSeq(dealt.cards, 1, Len(dealt.cards) - 1),
                                 discard_pile |-> <<top>>],
                       !.round_over = FALSE,
                       !.current_player_index = 0]

\* the None that stands where a card is looked for
NoCard == [rank |-> None, suit |-> None]

\* Deck.draw: the last card of cards, or ValueError('Deck is empty')
draw(deck) ==
    IF Len(deck.cards) = 0
    THEN [raised |-> "Deck is empty", card |-> NoCard, deck |-> deck]
    ELSE [raised |-> None, card |-> deck.cards[Len(deck.cards)],
          deck |-> [deck EXCEPT !.cards = SubSeq(@, 1, Len(@) - 1)]]

\* Deck.add_to_discard
add_to_discard(deck, card) == [deck EXCEPT !.discard_pile = Append(@, card)]

\* Deck.draw_from_discard: the last card of discard_pile, or
\* ValueError('Discard pile is empty')
draw_from_discard(deck) ==
    IF Len(deck.discard_pile) = 0
    THEN [raised |-> "Discard pile is empty", card |-> NoCard, deck |-> deck]
    ELSE [raised |-> None, card |-> deck.discard_pile[Len(deck.discard_pile)],
          deck |-> [deck EXCEPT !.discard_pile = SubSeq(@, 1, Len(@) - 1)]]

\* Deck.peek_discard
peek_discard(deck) ==
    IF Len(deck.discard_pile) > 0 THEN deck.discard_pile[Len(deck.discard_pile)]
    ELSE NoCard

\* Deck.cards_remaining
cards_remaining(deck) == Len(deck.cards)

\* GameEngine.can_draw_from_deck, GameEngine.can_draw_from_discard
can_draw_from_deck(st) == cards_remaining(st.deck) > 0

can_draw_from_discard(st) == peek_discard(st.deck) # NoCard

\* s without the first card equal to x (list.remove)
RemoveFirst(s, x) ==
    LET at == CHOOSE i \in DOMAIN s : s[i] = x /\ \A j \in 1..(i - 1) : s[j] # x
    IN SubSeq(s, 1, at - 1) \o SubSeq(s, at + 1, Len(s))

\* GameEngine.draw_card drawing into a hand it does not add to
draw_card_Dropped(st, from_discard) ==
    LET drawn == IF from_discard THEN draw_from_discard(st.deck) ELSE draw(st.deck)
    IN IF drawn.raised # None
       THEN [raised |-> drawn.raised, card |-> NoCard, state |-> st]
       ELSE [raised |-> None, card |-> drawn.card,
             state |-> [st EXCEPT !.deck = drawn.deck]]

\* GameEngine.draw_card: the card drawn and the state left, or the error
\* raised by the deck with the state as it was
draw_card(st, from_discard) ==
    LET drawn == IF from_discard THEN draw_from_discard(st.deck) ELSE draw(st.deck)
    IN IF drawn.raised # None
       THEN [raised |-> drawn.raised, card |-> NoCard, state |-> st]
       ELSE [raised |-> None, card |-> drawn.card,
             state |-> [st EXCEPT !.deck = drawn.deck,
                                  !.players[current_player(st)].hand =
                                      Append(@, drawn.card)]]

\* GameEngine.discard_card laying a copy on the pile and leaving the hand
discard_card_KeepsCard(st, card) ==
    [raised |-> None, state |-> [st EXCEPT !.deck = add_to_discard(st.deck, card)]]

\* GameEngine.discard_card: Player.remove_card (list.remove raises ValueError
\* when the card is not in the hand) and then Deck.add_to_discard
discard_card(st, card) ==
    LET player == current_player(st)
    IN IF \A i \in DOMAIN st.players[player].hand : st.players[player].hand[i] # card
       THEN [raised |-> ValueError, state |-> st]
       ELSE [raised |-> None,
             state |-> [st EXCEPT !.players[player].hand = RemoveFirst(@, card),
                                  !.deck = add_to_discard(st.deck, card)]]

\* GameState.next_player
next_player(st) ==
    [st EXCEPT !.current_player_index =
                  (st.current_player_index + 1) % Len(st.players)]

\* GameEngine.end_round
end_round(st) == [st EXCEPT !.round_number = st.round_number + 1]

\* lines 245-248: meld_cards = set() filled with every card of every meld
meld_cards_of(melds) == UNION {Range(melds[i]) : i \in DOMAIN melds}

\* try_go_out emptying the hand before the melds are validated
try_go_out_ClearsFirst(st, melds) ==
    LET player == current_player(st)
        cleared == [st EXCEPT !.players[player].hand = <<>>]
        validation_result == validate_all_melds(melds, get_wild_rank(st))
    IN IF SumSeq([i \in DOMAIN melds |-> Len(melds[i])]) # Len(st.players[player].hand)
       THEN [raised |-> None, success |-> FALSE, error |-> "count", state |-> st]
       ELSE IF meld_cards_of(melds) # Range(st.players[player].hand)
       THEN [raised |-> None, success |-> FALSE, error |-> "set", state |-> st]
       ELSE IF ~validation_result.is_valid
       THEN [raised |-> None, success |-> FALSE,
             error |-> validation_result.error_message, state |-> cleared]
       ELSE [raised |-> None, success |-> TRUE, error |-> None,
             state |-> [cleared EXCEPT !.round_over = TRUE]]

\* try_go_out setting round_over and leaving the hand as it is
try_go_out_KeepsHand(st, melds) ==
    LET player == current_player(st)
        validation_result == validate_all_melds(melds, get_wild_rank(st))
    IN IF SumSeq([i \in DOMAIN melds |-> Len(melds[i])]) # Len(st.players[player].hand)
       THEN [raised |-> None, success |-> FALSE, error |-> "count", state |-> st]
       ELSE IF meld_cards_of(melds) # Range(st.players[player].hand)
       THEN [raised |-> None, success |-> FALSE, error |-> "set", state |-> st]
       ELSE IF ~validation_result.is_valid
       THEN [raised |-> None, success |-> FALSE,
             error |-> validation_result.error_message, state |-> st]
       ELSE [raised |-> None, success |-> TRUE, error |-> None,
             state |-> [st EXCEPT !.round_over = TRUE]]

\* GameEngine.try_go_out: (success, error_message) and the state it leaves;
\* raised is ValueError when get_wild_rank raises
try_go_out(st, melds) ==
    LET player == current_player(st)
        hand_of_player == st.players[player].hand
        wild_rank_now == get_wild_rank(st)
        cards_in_melds == SumSeq([i \in DOMAIN melds |-> Len(melds[i])])
        meld_cards == meld_cards_of(melds)
        hand_cards == Range(hand_of_player)
        validation_result == validate_all_melds(melds, wild_rank_now)
    IN IF wild_rank_now = ValueError
       THEN [raised |-> ValueError, success |-> FALSE, error |-> None, state |-> st]
       ELSE IF cards_in_melds # Len(hand_of_player)
       THEN [raised |-> None, success |-> FALSE,
             error |-> "Melds use " \o ToString(cards_in_melds)
                         \o " cards but hand has " \o ToString(Len(hand_of_player)),
             state |-> st]
       ELSE IF meld_cards # hand_cards
       THEN [raised |-> None, success |-> FALSE,
             error |-> "Melds contain cards not in hand", state |-> st]
       ELSE IF ~validation_result.is_valid
       THEN [raised |-> None, success |-> FALSE,
             error |-> validation_result.error_message, state |-> st]
       ELSE [raised |-> None, success |-> TRUE, error |-> None,
             state |-> [st EXCEPT !.players[player].hand = <<>>,
                                  !.round_over = TRUE]]

(***************************************************************************)
(* Bounds and input domains                                                *)
(***************************************************************************)
\* the longest hand searched for melds
MaxHand == 6

\* the longest grouping handed to the validator, card by card
MaxGroup == 4

\* the most melds laid down in one call
MaxMelds == 2

\* the most cards laid down in one call, over all its melds
MaxMeldCards == 6

\* the most cards declared in one attempt to go out, over all its melds
MaxDeclared == 4

\* the most cards in a hand whose points are counted
MaxValued == 2

\* the most players at the table
MaxPlayers == 4

\* the most Jokers in a long grouping
MaxJokers == 12

\* the most cards in a grouping that is validated in every order
MaxPermuted == 4

\* the largest round number get_wild_card is asked for; the smallest lies as
\* far below round 1 as this one above round 11
MaxRound == 13

\* the cards that can be dealt into a searched hand; the two jokers are equal
\* cards and different objects, as the deck holds equal cards more than once
DealtCards ==
    <<Card("5", "HEARTS"), Card("6", "HEARTS"), Card("7", "HEARTS"),
      Card("5", "SPADES"), Card("5", "CLUBS"), create_joker, create_joker>>

\* rounds played over the searched hands (3s wild, 6s wild)
HandRounds == {1, 4}

\* card kinds of the validated groupings
GroupCards ==
    {Card(r, s) : r \in {"3", "4", "J", "Q", "K"}, s \in {"HEARTS", "SPADES"}}
      \cup {create_joker}

\* rounds of the validated groupings (3s wild, 7s wild, Ks wild)
GroupRounds == {1, 5, 11}

CountIn(s, x) == Cardinality({i \in DOMAIN s : s[i] = x})

NoCall == [op |-> "none"]

\* the meld search and the validator are static: they run without an engine
NoEngine == [engine |-> "none"]

(***************************************************************************)
(* Searching a hand.  The hand is dealt card by card and handed to the     *)
(* search: to the enumeration of candidate melds (SpecEnumerate), to the   *)
(* choice of the best combination (Spec), to the going-out test            *)
(* (SpecGoOut).                                                            *)
(***************************************************************************)
Init ==
    /\ hand = <<>>
    /\ state = NoEngine
    /\ wild_rank \in {get_wild_card(n) : n \in HandRounds}
    /\ ret = NoCall

\* Player.add_card
add_card(card) ==
    /\ Len(hand) < MaxHand
    /\ CountIn(hand, card) < CountIn(DealtCards, card)
    /\ hand' = Append(hand, card)
    /\ ret' = NoCall
    /\ UNCHANGED <<wild_rank, state>>

Call_find_all_books ==
    /\ ret = NoCall
    /\ ret' = [op |-> "find_all_books",
               melds |-> find_all_books(Objects(hand), wild_rank)]
    /\ UNCHANGED <<hand, wild_rank, state>>

Call_find_all_runs ==
    /\ ret = NoCall
    /\ ret' = [op |-> "find_all_runs",
               melds |-> find_all_runs(Objects(hand), wild_rank)]
    /\ UNCHANGED <<hand, wild_rank, state>>

Call_find_best_meld_combination ==
    /\ ret = NoCall
    /\ LET best == find_best_meld_combination(Objects(hand), wild_rank)
       IN ret' = [op |-> "find_best_meld_combination",
                  melds |-> best.melds,
                  remaining_points |-> best.remaining_points,
                  all_melds |-> best.all_melds,
                  unique_melds |-> best.unique_melds]
    /\ UNCHANGED <<hand, wild_rank, state>>

Call_can_go_out ==
    /\ ret = NoCall
    /\ LET r == can_go_out(Objects(hand), wild_rank)
       IN ret' = [op |-> "can_go_out", ok |-> r.ok, melds |-> r.melds]
    /\ UNCHANGED <<hand, wild_rank, state>>

Next ==
    \/ \E card \in Range(DealtCards) : add_card(card)
    \/ Call_find_best_meld_combination

Spec == Init /\ [][Next]_vars

NextEnumerate ==
    \/ \E card \in Range(DealtCards) : add_card(card)
    \/ Call_find_all_books
    \/ Call_find_all_runs

SpecEnumerate == Init /\ [][NextEnumerate]_vars

NextGoOut ==
    \/ \E card \in Range(DealtCards) : add_card(card)
    \/ Call_can_go_out

SpecGoOut == Init /\ [][NextGoOut]_vars

(***************************************************************************)
(* The greedy selection, pass by pass: SpecGreedy.  Of a hand the          *)
(* candidate melds are found, and _greedy_meld_selection is entered with   *)
(* one of them as the forced first pick or with none, as                   *)
(* find_best_meld_combination does; each pass of its while-loop is a step. *)
(***************************************************************************)
\* the hands searched: the cards of DealtCards at any set of positions, in
\* the order of DealtCards
RECURSIVE Picked(_, _, _)
Picked(cards, S, i) ==
    IF i > Len(cards) THEN <<>>
    ELSE (IF i \in S THEN <<cards[i]>> ELSE <<>>) \o Picked(cards, S, i + 1)

\* a hand of the last round: 13 cards that make four melds
LastRoundHand ==
    <<Card("5", "HEARTS"), Card("6", "HEARTS"), Card("7", "HEARTS"),
      Card("5", "SPADES"), Card("5", "CLUBS"), Card("5", "DIAMONDS"),
      Card("9", "SPADES"), Card("10", "SPADES"), Card("J", "SPADES"),
      Card("Q", "CLUBS"), Card("Q", "DIAMONDS"), Card("Q", "HEARTS"),
      Card("K", "STARS")>>

GreedyHands ==
    {Picked(DealtCards, S, 1) : S \in SUBSET DOMAIN DealtCards}
        \cup {LastRoundHand, SubSeq(LastRoundHand, 1, 12)}

InitGreedy ==
    /\ hand \in GreedyHands
    /\ state = NoEngine
    /\ wild_rank \in {get_wild_card(n) : n \in HandRounds}
    /\ ret = NoCall

\* find_best_meld_combination up to its calls of the selection: the
\* candidate melds of the hand, duplicates removed
find_candidates ==
    /\ state = NoEngine
    /\ Len(hand) > 0
    /\ state' = [engine |-> "find_best_meld_combination",
                 unique_melds |->
                     unique_melds_of(find_all_melds(Objects(hand), wild_rank))]
    /\ UNCHANGED <<hand, wild_rank, ret>>

\* lines 191-196: used_cards and result on entry; current_melds is
\* [unique_melds[start]], or [] when start is 0
enter_greedy_meld_selection ==
    /\ state # NoEngine
    /\ state.engine = "find_best_meld_combination"
    /\ \E start \in 0..Len(state.unique_melds) :
          LET current_melds ==
                  IF start = 0 THEN <<>> ELSE <<state.unique_melds[start]>>
          IN state' = [engine |-> "_greedy_meld_selection",
                       all_melds |-> state.unique_melds,
                       used_cards |-> UsedIds(current_melds),
                       result |-> current_melds,
                       running |-> TRUE]
    /\ UNCHANGED <<hand, wild_rank, ret>>

\* lines 198-222: one pass of the while-loop; lines 216-217 and 224: break
\* and return result
greedy_pass ==
    /\ state # NoEngine
    /\ state.engine = "_greedy_meld_selection"
    /\ state.running
    /\ LET best_meld == ScanBestMeld(state.all_melds, wild_rank,
                                     state.used_cards, 1, 0, 0)
       IN IF best_meld = 0
          THEN /\ state' = [state EXCEPT !.running = FALSE]
               /\ ret' = [op |-> "_greedy_meld_selection", result |-> state.result]
          ELSE /\ state' = [state EXCEPT
                              !.result = Append(@, state.all_melds[best_meld]),
                              !.used_cards = @ \cup Ids(state.all_melds[best_meld])]
               /\ UNCHANGED ret
    /\ UNCHANGED <<hand, wild_rank>>

NextGreedy ==
    \/ find_candidates
    \/ enter_greedy_meld_selection
    \/ greedy_pass

\* the loop runs on once entered: a pass that can be taken is taken
SpecGreedy == InitGreedy /\ [][NextGreedy]_vars /\ WF_vars(greedy_pass)

(***************************************************************************)
(* Validating a grouping: SpecValidator                                    *)
(***************************************************************************)
InitValidator ==
    /\ hand = <<>>
    /\ state = NoEngine
    /\ wild_rank \in {get_wild_card(n) : n \in GroupRounds}
    /\ ret = NoCall

\* the grouping grows by one card
add_to_group(card) ==
    /\ Len(hand) < MaxGroup
    /\ hand' = Append(hand, card)
    /\ ret' = NoCall
    /\ UNCHANGED <<wild_rank, state>>

Call_is_valid_book ==
    /\ ret = NoCall
    /\ ret' = [op |-> "is_valid_book", ok |-> is_valid_book(hand, wild_rank)]
    /\ UNCHANGED <<hand, wild_rank, state>>

Call_is_valid_run ==
    /\ ret = NoCall
    /\ ret' = [op |-> "is_valid_run", ok |-> is_valid_run(hand, wild_rank)]
    /\ UNCHANGED <<hand, wild_rank, state>>

NextValidator ==
    \/ \E card \in GroupCards : add_to_group(card)
    \/ Call_is_valid_book
    \/ Call_is_valid_run

SpecValidator == InitValidator /\ [][NextValidator]_vars

(***************************************************************************)
(* Validating the melds a player lays down: SpecValidateAll                *)
(***************************************************************************)
\* card kinds of the melds laid down
MeldCards == {Card("5", "HEARTS"), Card("5", "SPADES"), create_joker}

\* rounds of the melds laid down (3s wild, 5s wild)
MeldRounds == {1, 3}

\* where a card list of n cards is cut into k melds: c[i] cards lie before meld i
Cuts(n, k) ==
    {c \in [1..(k + 1) -> 0..n] :
        /\ c[1] = 0
        /\ c[k + 1] = n
        /\ \A i \in 1..k : c[i] <= c[i + 1]}

SplitAt(s, c, k) == [i \in 1..k |-> SubSeq(s, c[i] + 1, c[i + 1])]

\* the lists of k melds (empty melds too) of n cards together
MeldListsOf(n, k) ==
    UNION {{SplitAt(s, c, k) : s \in [1..n -> MeldCards]} : c \in Cuts(n, k)}

InitValidateAll ==
    /\ hand = <<>>
    /\ state = NoEngine
    /\ wild_rank \in {get_wild_card(n) : n \in MeldRounds}
    /\ ret = NoCall

\* validate_all_melds called with a list of melds
Call_validate_all_melds ==
    /\ ret = NoCall
    /\ \E n \in 0..MaxMeldCards, k \in 0..MaxMelds :
         \E c \in Cuts(n, k), s \in [1..n -> MeldCards] :
            LET melds == SplitAt(s, c, k)
                result == validate_all_melds(melds, wild_rank)
            IN ret' = [op |-> "validate_all_melds", melds |-> melds,
                       is_valid |-> result.is_valid,
                       error_message |-> result.error_message]
    /\ UNCHANGED <<hand, wild_rank, state>>

NextValidateAll == Call_validate_all_melds

SpecValidateAll == InitValidateAll /\ [][NextValidateAll]_vars

(***************************************************************************)
(* Going out in the first round: SpecEngine.  The engine is built, the     *)
(* round is set up once, and the current player makes one attempt to go    *)
(* out; a failed attempt leaves the state as it was.                       *)
(***************************************************************************)
PlayerNames == <<<<"Player 1", TRUE>>, <<"Player 2", FALSE>>>>

\* what the shuffle brings to the top of the deck for the first player: any
\* cards of MeldCards the deck holds often enough
FirstHands ==
    {p \in [1..get_cards_per_hand(GameEngine(PlayerNames)) -> MeldCards] :
        \A card \in MeldCards : CountIn(p, card) <= CountIn(_initialize_deck, card)}

\* and below them, for the second player and the discard pile
RestOfTop ==
    <<Card("K", "SPADES"), Card("K", "HEARTS"), Card("K", "CLUBS"),
      Card("Q", "DIAMONDS")>>

\* s without the first card equal to x
RemoveOne(s, x) ==
    LET at == CHOOSE i \in DOMAIN s : s[i] = x /\ \A j \in 1..(i - 1) : s[j] # x
    IN SubSeq(s, 1, at - 1) \o SubSeq(s, at + 1, Len(s))

RECURSIVE RemoveAll(_, _)
RemoveAll(s, xs) ==
    IF Len(xs) = 0 THEN s ELSE RemoveAll(RemoveOne(s, Head(xs)), Tail(xs))

Reverse(s) == [i \in DOMAIN s |-> s[Len(s) + 1 - i]]

\* the orders random.shuffle is taken to leave the deck in: the cards of top
\* come off first, in the order of top (cards are popped from the end)
Shuffles ==
    {RemoveAll(_initialize_deck, p \o RestOfTop) \o Reverse(p \o RestOfTop) :
        p \in FirstHands}

InitEngine ==
    /\ hand = <<>>
    /\ state = GameEngine(PlayerNames)
    /\ wild_rank = get_wild_rank(state)
    /\ ret = NoCall

\* GameEngine.setup_round
setup_round ==
    /\ ret = NoCall
    /\ state.deck = Deck
    /\ \E shuffled \in Shuffles : state' = start_new_round(state, shuffled)
    /\ UNCHANGED <<hand, wild_rank, ret>>

\* GameEngine.try_go_out called with a list of melds
Call_try_go_out ==
    /\ ret = NoCall
    /\ \E n \in 0..MaxDeclared, k \in 0..MaxMelds :
         \E c \in Cuts(n, k), s \in [1..n -> MeldCards] :
            LET melds == SplitAt(s, c, k)
                result == try_go_out(state, melds)
            IN /\ ret' = [op |-> "try_go_out", melds |-> melds,
                          raised |-> result.raised,
                          success |-> result.success, error |-> result.error]
               /\ state' = result.state
    /\ UNCHANGED <<hand, wild_rank>>

NextEngine ==
    \/ setup_round
    \/ Call_try_go_out

SpecEngine == InitEngine /\ [][NextEngine]_vars

(***************************************************************************)
(* Dealing a round: SpecDeal.  A game of 1 to MaxPlayers players is built; *)
(* the main loop sets the round, a round is set up, turns pass and rounds  *)
(* end, and the next round is set up from whatever state the last one left.*)
(***************************************************************************)
AllPlayerNames ==
    [i \in 1..MaxPlayers |->
        <<"Player " \o ToString(i), i = 1>>]

\* s with its first k cards moved to the end
Rotate(s, k) == SubSeq(s, k + 1, Len(s)) \o SubSeq(s, 1, k)

\* where the deck is cut by the shuffles taken
ShuffleCuts == {29, 58}

\* the orders random.shuffle is taken to leave the new deck in
DealShuffles ==
    {_initialize_deck, Reverse(_initialize_deck)}
        \cup {Rotate(_initialize_deck, k) : k \in ShuffleCuts}

InitDeal ==
    /\ hand = <<>>
    /\ \E n \in 1..MaxPlayers : state = GameEngine(SubSeq(AllPlayerNames, 1, n))
    /\ wild_rank = get_wild_rank(state)
    /\ ret = NoCall

\* main: engine.state.round_number = round_num, for round_num in range(1, 12)
set_round_number ==
    /\ ret = NoCall
    /\ \E round_num \in 1..11 :
          /\ state' = [state EXCEPT !.round_number = round_num]
          /\ wild_rank' = get_wild_card(round_num)
    /\ UNCHANGED <<hand, ret>>

\* GameState.next_player
Call_next_player ==
    /\ ret = NoCall
    /\ state' = next_player(state)
    /\ UNCHANGED <<hand, wild_rank, ret>>

\* play_round line 332: engine.state.round_over = True
set_round_over ==
    /\ ret = NoCall
    /\ ~state.round_over
    /\ state' = [state EXCEPT !.round_over = TRUE]
    /\ UNCHANGED <<hand, wild_rank, ret>>

\* GameEngine.end_round (a game has 11 rounds; the 12th is never dealt)
Call_end_round ==
    /\ ret = NoCall
    /\ state.round_number <= 11
    /\ state' = end_round(state)
    /\ wild_rank' = get_wild_card(state.round_number + 1)
    /\ UNCHANGED <<hand, ret>>

\* GameEngine.setup_round
Call_setup_round ==
    /\ ret = NoCall
    /\ \E shuffled \in DealShuffles : state' = start_new_round(state, shuffled)
    /\ ret' = [op |-> "start_new_round"]
    /\ UNCHANGED <<hand, wild_rank>>

NextDeal ==
    \/ set_round_number
    \/ Call_next_player
    \/ set_round_over
    \/ Call_end_round
    \/ Call_setup_round

SpecDeal == InitDeal /\ [][NextDeal]_vars

(***************************************************************************)
(* Drawing and discarding: SpecDraw.  A table of eight is dealt the last   *)
(* round, which leaves eleven cards to draw; from there the engine is      *)
(* asked to draw, to discard and to pass the turn.  A player draws with a  *)
(* full hand or less, discards with more and passes the turn with a full   *)
(* hand, as play_round has it; calls that raise are made at any time.      *)
(***************************************************************************)
TableNames ==
    <<<<"Player 1", TRUE>>, <<"Player 2", FALSE>>, <<"Player 3", FALSE>>,
      <<"Player 4", FALSE>>, <<"Player 5", FALSE>>, <<"Player 6", FALSE>>,
      <<"Player 7", FALSE>>, <<"Player 8", FALSE>>>>

\* the order random.shuffle is taken to leave the deck in: 3s come off first,
\* and the Jokers and the last Ks are left to draw
DrawShuffle == Reverse(_initialize_deck)

InitDraw ==
    /\ hand = <<>>
    /\ state = start_new_round([GameEngine(TableNames) EXCEPT !.round_number = 11],
                               DrawShuffle)
    /\ wild_rank = get_wild_rank(state)
    /\ ret = NoCall

\* GameEngine.draw_card(from_discard)
Call_draw_card(from_discard) ==
    /\ LET result == draw_card(state, from_discard)
       IN /\ \/ result.raised # None
             \/ Len(state.players[current_player(state)].hand)
                   <= get_cards_per_hand(state)
          /\ ret' = [op |-> "draw_card", raised |-> result.raised]
          /\ state' = result.state
    /\ UNCHANGED <<hand, wild_rank>>

\* the cards the engine holds, each kind once
DeckCards == {_initialize_deck[i] : i \in DOMAIN _initialize_deck}

\* the cards discard_card is called with: the last card of the current
\* player's hand, and a card the player does not hold
DiscardArgs ==
    LET player_hand == state.players[current_player(state)].hand
        held == {player_hand[i] : i \in DOMAIN player_hand}
    IN {player_hand[i] : i \in DOMAIN player_hand \cap {Len(player_hand)}}
         \cup {CHOOSE card \in DeckCards \ held : TRUE}

\* GameEngine.discard_card(card)
Call_discard_card ==
    \E card \in DiscardArgs :
       LET result == discard_card(state, card)
       IN /\ \/ result.raised # None
             \/ Len(state.players[current_player(state)].hand)
                   > get_cards_per_hand(state)
          /\ ret' = [op |-> "discard_card", raised |-> result.raised]
          /\ state' = result.state
          /\ UNCHANGED <<hand, wild_rank>>

\* GameState.next_player, between two turns
pass_turn ==
    /\ Len(state.players[current_player(state)].hand) = get_cards_per_hand(state)
    /\ state' = next_player(state)
    /\ ret' = [op |-> "next_player", raised |-> None]
    /\ UNCHANGED <<hand, wild_rank>>

NextDraw ==
    \/ \E from_discard \in BOOLEAN : Call_draw_card(from_discard)
    \/ Call_discard_card
    \/ pass_turn

SpecDraw == InitDraw /\ [][NextDraw]_vars

(***************************************************************************)
(* Going out at the end of a turn (ai_player.py, play_game.py)             *)
(***************************************************************************)
\* the cards of a meld as the engine compares them: by rank and suit
Cards(meld) == [i \in DOMAIN meld |-> Card(meld[i].rank, meld[i].suit)]

\* AIPlayer.take_turn lines 191-199 (play_human_turn lines 256-262) once
\* can_go_out has answered (ok, found_melds): try_go_out with the melds on a
\* yes, nothing on a no
go_out_with(st, ok, found_melds) ==
    IF ok
    THEN LET melds == [i \in DOMAIN found_melds |-> Cards(found_melds[i])]
             result == try_go_out(st, melds)
         IN [op |-> "go_out_step", can_go_out |-> TRUE,
             player_hand |-> st.players[current_player(st)].hand,
             melds |-> melds, raised |-> result.raised,
             success |-> result.success, error |-> result.error,
             state |-> result.state]
    ELSE [op |-> "go_out_step", can_go_out |-> FALSE,
          player_hand |-> st.players[current_player(st)].hand, state |-> st]

(***************************************************************************)
(* The computer player (ai_player.py).  Scores are kept doubled, so that   *)
(* the half points evaluate_card_usefulness takes off stay whole numbers.  *)
(***************************************************************************)
Abs(n) == IF n < 0 THEN 0 - n ELSE n

\* the score a card of the same suit adds at the distance in ranks, doubled
NearScore(distance) ==
    IF distance = 1 THEN 40
    ELSE IF distance = 2 THEN 20
    ELSE IF distance = 3 THEN 10
    ELSE 0

\* AIStrategy.evaluate_card_usefulness, doubled
evaluate_card_usefulness(card, h, wr) ==
    IF is_wild(card, wr) THEN 200
    ELSE LET same_rank ==
                 Cardinality({i \in DOMAIN h : h[i].rank = card.rank /\ h[i] # card})
             near == [i \in DOMAIN h |->
                        IF h[i].suit = card.suit /\ h[i] # card /\ ~is_wild(h[i], wr)
                        THEN NearScore(Abs(RANK_VALUES(card.rank)
                                             - RANK_VALUES(h[i].rank)))
                        ELSE 0]
         IN 30 * same_rank + SumSeq(near) - _get_card_points(card, wr)

\* AIStrategy.decide_draw_source: True to draw from the discard pile
decide_draw_source(h, discard_top, wr) ==
    IF discard_top = NoCard THEN FALSE
    ELSE IF is_wild(discard_top, wr) THEN TRUE
    ELSE evaluate_card_usefulness(discard_top, h, wr) > 50

\* AIStrategy.decide_discard on a hand that is not empty: the first card of
\* the hand among the least useful ones (the sort is stable)
decide_discard(h, wr) ==
    LET at == CHOOSE i \in DOMAIN h :
                 /\ \A j \in DOMAIN h : evaluate_card_usefulness(h[i], h, wr)
                                          <= evaluate_card_usefulness(h[j], h, wr)
                 /\ \A j \in 1..(i - 1) : evaluate_card_usefulness(h[j], h, wr)
                                            > evaluate_card_usefulness(h[i], h, wr)
    IN h[at]

\* what a turn hands back to play_round: the exception that left it, or
\* went_out and the state the turn leaves
Turn(raised, went_out, st) == [raised |-> raised, went_out |-> went_out, state |-> st]

\* the end of a turn, after the attempt to go out
discard_or_out(st, go, card_to_discard) ==
    IF go.can_go_out /\ go.success THEN Turn(None, TRUE, go.state)
    ELSE LET discarded == discard_card(st, card_to_discard)
         IN Turn(discarded.raised, FALSE, discarded.state)

\* AIPlayer.take_turn from step 2 on, the card drawn
take_turn_drawn(st) ==
    LET player_hand == st.players[current_player(st)].hand
        found == can_go_out(Objects(player_hand), get_wild_rank(st))
    IN discard_or_out(st, go_out_with(st, found.ok, found.melds),
                      decide_discard(player_hand, get_wild_rank(st)))

\* AIPlayer.take_turn
take_turn(st) ==
    LET from_discard == decide_draw_source(st.players[current_player(st)].hand,
                                           peek_discard(st.deck), get_wild_rank(st))
        drawn == draw_card(st, from_discard /\ can_draw_from_discard(st))
    IN IF drawn.raised # None THEN Turn(drawn.raised, FALSE, st)
       ELSE take_turn_drawn(drawn.state)

(***************************************************************************)
(* A round at the table (play_game.py).  The person at the table types the *)
(* answers: pile or deck, whether to try to go out, which card to discard. *)
(***************************************************************************)
\* play_human_turn from the question about going out on
play_human_turn_drawn(st, wants_out, choice) ==
    LET player_hand == st.players[current_player(st)].hand
        found == IF wants_out THEN can_go_out(Objects(player_hand), get_wild_rank(st))
                 ELSE [ok |-> FALSE, melds |-> None]
    IN discard_or_out(st, go_out_with(st, found.ok, found.melds),
                      player_hand[choice])

\* play_human_turn; GameUI.get_player_draw_choice answers the deck without
\* asking when the discard pile is empty
play_human_turn(st, pile, wants_out, choice) ==
    LET drawn == draw_card(st, pile /\ peek_discard(st.deck) # NoCard)
    IN IF drawn.raised # None THEN Turn(drawn.raised, FALSE, st)
       ELSE play_human_turn_drawn(drawn.state, wants_out, choice)

\* main: the person first, then the computer opponents
MainPlayers(num_ai) ==
    <<<<"Player", TRUE>>>>
        \o [i \in 1..num_ai |-> <<"Computer " \o ToString(i), FALSE>>]

\* the None of going_out_player_index: no index of a player
NoIndex == 0 - 1

\* play_round up to its loop: the round is set up, nobody has gone out.
\* turns_taken, gone_out and final_lap keep the history the claims speak of:
\* the number of turns taken, the players whose turn went out, and the
\* players who took a turn after the first one went out.
enter_play_round(engine_state, shuffled) ==
    [engine |-> "play_round",
     state |-> start_new_round(engine_state, shuffled),
     winner_name |-> None,
     going_out_player_index |-> NoIndex,
     raised |-> None,
     returned |-> FALSE,
     turns_taken |-> 0,
     gone_out |-> {},
     final_lap |-> <<>>]

\* play_round, lines 287-290: the loop is left when the turn is back at the
\* player who went out
BackAtGoingOut(round) ==
    /\ round.going_out_player_index # NoIndex
    /\ round.state.current_player_index = round.going_out_player_index

\* one pass of the loop of play_round keeping the first index for good,
\* but naming the latest player to go out as the winner
play_round_pass_LatestWinner(round, turn) ==
    IF turn.raised # None THEN [round EXCEPT !.raised = turn.raised]
    ELSE LET index == round.state.current_player_index
             name == round.state.players[index + 1].name
             first == turn.went_out /\ round.going_out_player_index = NoIndex
         IN [round EXCEPT
               !.state = next_player(turn.state),
               !.winner_name = IF turn.went_out THEN name ELSE @,
               !.going_out_player_index = IF first THEN index ELSE @,
               !.turns_taken = @ + 1,
               !.gone_out = IF turn.went_out THEN @ \cup {index} ELSE @,
               !.final_lap = IF round.going_out_player_index # NoIndex
                             THEN Append(@, index) ELSE @]

\* one pass of the loop of play_round over the turn taken: an exception
\* leaves play_round; else the first player to go out is recorded and the
\* turn passes on
play_round_pass(round, turn) ==
    IF turn.raised # None THEN [round EXCEPT !.raised = turn.raised]
    ELSE LET index == round.state.current_player_index
             name == round.state.players[index + 1].name
             first == turn.went_out /\ round.going_out_player_index = NoIndex
         IN [round EXCEPT
               !.state = next_player(turn.state),
               !.winner_name = IF first THEN name ELSE @,
               !.going_out_player_index = IF first THEN index ELSE @,
               !.turns_taken = @ + 1,
               !.gone_out = IF turn.went_out THEN @ \cup {index} ELSE @,
               !.final_lap = IF round.going_out_player_index # NoIndex
                             THEN Append(@, index) ELSE @]

\* a pass of the loop can be made
InLoop(round) ==
    /\ round.engine = "play_round"
    /\ round.raised = None
    /\ ~round.returned
    /\ ~BackAtGoingOut(round)

\* a pass in which a person plays
human_turn(pile, wants_out, choice) ==
    /\ InLoop(state)
    /\ state.state.players[current_player(state.state)].is_human
    /\ state' = play_round_pass(state,
                    play_human_turn(state.state, pile, wants_out, choice))
    /\ ret' = [op |-> "play_human_turn", pile |-> pile, wants_out |-> wants_out,
               choice |-> choice]
    /\ UNCHANGED <<hand, wild_rank>>

\* a pass in which the computer plays
ai_turn ==
    /\ InLoop(state)
    /\ ~state.state.players[current_player(state.state)].is_human
    /\ state' = play_round_pass(state, take_turn(state.state))
    /\ ret' = [op |-> "take_turn"]
    /\ UNCHANGED <<hand, wild_rank>>

\* play_round, the break and line 332
leave_play_round ==
    /\ state.engine = "play_round"
    /\ state.raised = None
    /\ ~state.returned
    /\ BackAtGoingOut(state)
    /\ state' = [state EXCEPT !.state.round_over = TRUE, !.returned = TRUE]
    /\ ret' = [op |-> "play_round", winner_name |-> state.winner_name]
    /\ UNCHANGED <<hand, wild_rank>>

(***************************************************************************)
(* A round played to the bottom of the deck: SpecLongRound.  The person    *)
(* and one computer opponent play the second round; the person draws from  *)
(* the deck while it holds a card and from the pile after that, does not   *)
(* try to go out, and discards the card just drawn.                        *)
(***************************************************************************)
\* an order random.shuffle leaves the deck in (the last card comes off first)
LongShuffle ==
    <<Card("5", "SPADES"), Card("5", "HEARTS"), Card("J", "CLUBS"),
      Card("8", "HEARTS"), Card("3", "DIAMONDS"), Card("K", "HEARTS"),
      Card("7", "CLUBS"), Card("J", "SPADES"), Card("7", "SPADES"),
      Card("3", "SPADES"), Card("3", "STARS"), Card("3", "CLUBS"),
      Card("Q", "DIAMONDS"), Card("Q", "SPADES"), Card("J", "STARS"),
      Card("6", "HEARTS"), Card("8", "SPADES"), Card("5", "STARS"),
      Card("J", "HEARTS"), Card("3", "DIAMONDS"), Card("4", "SPADES"),
      Card("4", "HEARTS"), Card("7", "DIAMONDS"), Card("7", "CLUBS"),
      Card("K", "DIAMONDS"), Card("3", "CLUBS"), Card("10", "SPADES"),
      Card("3", "HEARTS"), Card("8", "STARS"), Card("5", "CLUBS"),
      Card("10", "DIAMONDS"), create_joker, create_joker,
      Card("5", "SPADES"), Card("4", "DIAMONDS"), Card("9", "CLUBS"),
      Card("Q", "DIAMONDS"), Card("Q", "HEARTS"), Card("10", "DIAMONDS"),
      create_joker, Card("9", "CLUBS"), Card("7", "HEARTS"),
      Card("4", "CLUBS"), Card("9", "DIAMONDS"), Card("K", "CLUBS"),
      Card("10", "HEARTS"), Card("7", "STARS"), Card("K", "HEARTS"),
      Card("J", "STARS"), Card("J", "SPADES"), Card("8", "CLUBS"),
      Card("10", "HEARTS"), create_joker, Card("10", "STARS"),
      Card("3", "HEARTS"), Card("7", "HEARTS"), Card("8", "STARS"),
      Card("7", "SPADES"), Card("Q", "STARS"), Card("Q", "CLUBS"),
      Card("9", "STARS"), Card("J", "DIAMONDS"), Card("9", "HEARTS"),
      Card("8", "HEARTS"), Card("9", "SPADES"), Card("J", "CLUBS"),
      Card("K", "CLUBS"), Card("Q", "CLUBS"), Card("7", "STARS"),
      Card("5", "DIAMONDS"), Card("7", "DIAMONDS"), Card("10", "STARS"),
      Card("10", "SPADES"), Card("5", "STARS"), Card("6", "DIAMONDS"),
      Card("J", "DIAMONDS"), Card("10", "CLUBS"), Card("6", "CLUBS"),
      Card("6", "HEARTS"), Card("4", "SPADES"), Card("9", "STARS"),
      create_joker, create_joker, Card("9", "HEARTS"),
      Card("6", "DIAMONDS"), Card("10", "CLUBS"), Card("K", "STARS"),
      Card("9", "DIAMONDS"), Card("8", "SPADES"), Card("8", "DIAMONDS"),
      Card("6", "SPADES"), Card("6", "CLUBS"), Card("Q", "STARS"),
      Card("K", "STARS"), Card("6", "SPADES"), Card("Q", "SPADES"),
      Card("9", "SPADES"), Card("4", "DIAMONDS"), Card("K", "DIAMONDS"),
      Card("3", "SPADES"), Card("5", "HEARTS"), Card("3", "STARS"),
      Card("8", "CLUBS"), Card("4", "STARS"), Card("4", "CLUBS"),
      Card("6", "STARS"), Card("Q", "HEARTS"), Card("5", "CLUBS"),
      Card("5", "DIAMONDS"), Card("K", "SPADES"), Card("4", "STARS"),
      Card("4", "HEARTS"), Card("8", "DIAMONDS"), Card("K", "SPADES"),
      Card("6", "STARS"), Card("J", "HEARTS")>>

LongShuffles == {LongShuffle, Reverse(LongShuffle)}

InitLongRound ==
    /\ hand = <<>>
    /\ \E shuffled \in LongShuffles :
          state = enter_play_round(
                      [GameEngine(MainPlayers(1)) EXCEPT !.round_number = 2], shuffled)
    /\ wild_rank = get_wild_rank(state.state)
    /\ ret = NoCall

NextLongRound ==
    \/ human_turn(~can_draw_from_deck(state.state), FALSE,
                  get_cards_per_hand(state.state) + 1)
    \/ ai_turn
    \/ leave_play_round

SpecLongRound == InitLongRound /\ [][NextLongRound]_vars

(***************************************************************************)
(* The first turns of a round: SpecRound.  The person and one or two       *)
(* computer opponents play the first round; the person answers every       *)
(* question either way and discards any card of the hand.                  *)
(***************************************************************************)
\* the turns of a round that are followed
MaxTurns == 5

\* the cards that come off the deck first, first card first: the hands dealt,
\* the card flipped onto the pile, the cards drawn
RoundTops ==
    {<<Card("7", "HEARTS"), Card("7", "SPADES"), Card("7", "CLUBS"),
       Card("9", "HEARTS"), Card("9", "SPADES"), Card("9", "CLUBS"),
       Card("J", "HEARTS"), Card("J", "SPADES"), Card("J", "CLUBS"),
       Card("7", "DIAMONDS"), Card("9", "DIAMONDS"), Card("J", "DIAMONDS")>>,
     <<Card("5", "HEARTS"), Card("8", "SPADES"), Card("Q", "CLUBS"),
       Card("9", "HEARTS"), Card("9", "SPADES"), Card("9", "CLUBS"),
       Card("9", "DIAMONDS"), Card("5", "SPADES"), Card("5", "CLUBS"),
       Card("Q", "HEARTS"), create_joker, Card("8", "HEARTS")>>}

\* the orders random.shuffle is taken to leave the deck in
RoundShuffles ==
    {RemoveAll(_initialize_deck, top) \o Reverse(top) : top \in RoundTops}

InitRound ==
    /\ hand = <<>>
    /\ \E num_ai \in {1, 2}, shuffled \in RoundShuffles :
          state = enter_play_round(GameEngine(MainPlayers(num_ai)), shuffled)
    /\ wild_rank = get_wild_rank(state.state)
    /\ ret = NoCall

NextRound ==
    \/ /\ state.turns_taken < MaxTurns
       /\ \E pile \in BOOLEAN, wants_out \in BOOLEAN,
             choice \in 1..(get_cards_per_hand(state.state) + 1) :
                human_turn(pile, wants_out, choice)
    \/ /\ state.turns_taken < MaxTurns
       /\ ai_turn
    \/ leave_play_round

SpecRound == InitRound /\ [][NextRound]_vars

(***************************************************************************)
(* Validating long groupings: SpecLongRun.  A grouping of hearts of any    *)
(* ranks, a spade or not, and Jokers is laid down and checked as a run.    *)
(***************************************************************************)
\* the cards of the ranks in S in the suit, lowest rank first
RECURSIVE SuitCards(_, _, _)
SuitCards(S, suit, i) ==
    IF i > Len(RANK_ORDER) THEN <<>>
    ELSE (IF RANK_ORDER[i] \in S THEN <<Card(RANK_ORDER[i], suit)>> ELSE <<>>)
            \o SuitCards(S, suit, i + 1)

Jokers(k) == [i \in 1..k |-> create_joker]

InitLongRun ==
    /\ hand = <<>>
    /\ state = NoEngine
    /\ wild_rank \in {get_wild_card(n) : n \in GroupRounds}
    /\ ret = NoCall

\* a card that may lie in the grouping besides the hearts and the Jokers
ExtraCards == {<<>>, <<Card("7", "HEARTS")>>, <<Card("8", "SPADES")>>}

\* the grouping is laid down
lay_down ==
    /\ hand = <<>>
    /\ \E S \in SUBSET Range(RANK_ORDER), k \in 0..MaxJokers, extra \in ExtraCards :
          /\ hand' = SuitCards(S, "HEARTS", 1) \o extra \o Jokers(k)
          /\ hand' # <<>>
    /\ UNCHANGED <<wild_rank, ret, state>>

Call_is_valid_run_exit ==
    /\ ret = NoCall
    /\ hand # <<>>
    /\ ret' = [op |-> "is_valid_run_exit",
               ok |-> is_valid_run(hand, wild_rank),
               exit |-> is_valid_run_exit(hand, wild_rank)]
    /\ UNCHANGED <<hand, wild_rank, state>>

NextLongRun ==
    \/ lay_down
    \/ Call_is_valid_run_exit

SpecLongRun == InitLongRun /\ [][NextLongRun]_vars

(***************************************************************************)
(* Validating a grouping in every order: SpecPermute.  The grouping grows  *)
(* card by card and is validated as a book, as a run, and as each of two   *)
(* melds that are laid down.                                               *)
(***************************************************************************)
PermutedCards ==
    {Card("3", "HEARTS"), Card("4", "HEARTS"), Card("5", "HEARTS"),
     Card("4", "SPADES"), Card("K", "HEARTS"), create_joker}

InitPermute ==
    /\ hand = <<>>
    /\ state = NoEngine
    /\ wild_rank \in {get_wild_card(n) : n \in GroupRounds}
    /\ ret = NoCall

\* the grouping grows by one card
add_to_permuted(card) ==
    /\ Len(hand) < MaxPermuted
    /\ hand' = Append(hand, card)
    /\ ret' = NoCall
    /\ UNCHANGED <<wild_rank, state>>

\* validate_all_melds on the grouping laid down twice
Call_validate_both ==
    /\ ret = NoCall
    /\ LET result == validate_all_melds(<<hand, hand>>, wild_rank)
       IN ret' = [op |-> "validate_all_melds", melds |-> <<hand, hand>>,
                  is_valid |-> result.is_valid,
                  error_message |-> result.error_message]
    /\ UNCHANGED <<hand, wild_rank, state>>

NextPermute ==
    \/ \E card \in PermutedCards : add_to_permuted(card)
    \/ Call_is_valid_book
    \/ Call_is_valid_run
    \/ Call_validate_both

SpecPermute == InitPermute /\ [][NextPermute]_vars

(***************************************************************************)
(* Going out with the melds that were found: SpecGoOutStep.  The current   *)
(* player's hand grows card by card; then the player asks can_go_out and,  *)
(* on a yes, calls try_go_out with the melds it returned, as                *)
(* AIPlayer.take_turn and play_human_turn do.                              *)
(***************************************************************************)
InitGoOutStep ==
    /\ hand = <<>>
    /\ \E round_num \in HandRounds :
          state = [GameEngine(PlayerNames) EXCEPT !.round_number = round_num]
    /\ wild_rank = get_wild_rank(state)
    /\ ret = NoCall

\* Player.add_card on the current player
add_card_to_player(card) ==
    /\ ret = NoCall
    /\ Len(state.players[current_player(state)].hand) < MaxHand
    /\ CountIn(state.players[current_player(state)].hand, card)
          < CountIn(DealtCards, card)
    /\ state' = [state EXCEPT !.players[current_player(state)].hand = Append(@, card)]
    /\ UNCHANGED <<hand, wild_rank, ret>>

\* can_go_out on the current player's hand, then go_out_with
go_out_step ==
    /\ ret = NoCall
    /\ LET found == can_go_out(Objects(state.players[current_player(state)].hand),
                               wild_rank)
       IN ret' = go_out_with(state, found.ok, found.melds)
    /\ state' = ret'.state
    /\ UNCHANGED <<hand, wild_rank>>

NextGoOutStep ==
    \/ \E card \in Range(DealtCards) : add_card_to_player(card)
    \/ go_out_step

SpecGoOutStep == InitGoOutStep /\ [][NextGoOutStep]_vars

(***************************************************************************)
(* Wild cards and card points: SpecCard.  A hand is built card by card;    *)
(* its cards are tested for being wild and valued, the hand is valued, and *)
(* the wild rank of a round is asked for.                                  *)
(***************************************************************************)
\* every rank in one suit, and the Joker
ValuedCards == {Card(r, "HEARTS") : r \in Range(RANK_ORDER)} \cup {create_joker}

RoundArgs == (12 - MaxRound)..MaxRound

InitCard ==
    /\ hand = <<>>
    /\ state = NoEngine
    /\ wild_rank \in {get_wild_card(n) : n \in 1..11}
    /\ ret = NoCall

\* Player.add_card
add_valued_card(card) ==
    /\ Len(hand) < MaxValued
    /\ hand' = Append(hand, card)
    /\ ret' = NoCall
    /\ UNCHANGED <<wild_rank, state>>

Call_get_wild_card ==
    /\ ret = NoCall
    /\ \E n \in RoundArgs :
          ret' = [op |-> "get_wild_card", round_number |-> n,
                  result |-> get_wild_card(n)]
    /\ UNCHANGED <<hand, wild_rank, state>>

Call_is_wild ==
    /\ ret = NoCall
    /\ \E i \in DOMAIN hand :
          ret' = [op |-> "is_wild", card |-> hand[i],
                  result |-> is_wild(hand[i], wild_rank)]
    /\ UNCHANGED <<hand, wild_rank, state>>

Call__card_value ==
    /\ ret = NoCall
    /\ \E i \in DOMAIN hand :
          ret' = [op |-> "_card_value", card |-> hand[i],
                  result |-> _card_value(hand[i], wild_rank)]
    /\ UNCHANGED <<hand, wild_rank, state>>

Call__get_card_points ==
    /\ ret = NoCall
    /\ \E i \in DOMAIN hand :
          ret' = [op |-> "_get_card_points", card |-> hand[i],
                  result |-> _get_card_points(hand[i], wild_rank)]
    /\ UNCHANGED <<hand, wild_rank, state>>

Call_calculate_hand_value ==
    /\ ret = NoCall
    /\ ret' = [op |-> "calculate_hand_value",
               result |-> calculate_hand_value(hand, wild_rank)]
    /\ UNCHANGED <<hand, wild_rank, state>>

NextCard ==
    \/ \E card \in ValuedCards : add_valued_card(card)
    \/ Call_get_wild_card
    \/ Call_is_wild
    \/ Call__card_value
    \/ Call__get_card_points
    \/ Call_calculate_hand_value

SpecCard == InitCard /\ [][NextCard]_vars

(***************************************************************************)
(* What the claims say of a grouping, stated on sets of positions          *)
(***************************************************************************)
SetMin(S) == CHOOSE x \in S : \A y \in S : x <= y

SetMax(S) == CHOOSE x \in S : \A y \in S : y <= x

\* positions of the non-wild cards of the grouping under validation
GNonWild == {i \in DOMAIN hand : hand[i].rank # wild_rank /\ hand[i].rank # "Joker"}

GWildCount == Len(hand) - Cardinality(GNonWild)

GOrdinals == {RANK_VALUES(hand[i].rank) : i \in GNonWild}

GOneSuit == Cardinality({hand[i].suit : i \in GNonWild}) = 1

GDistinctRanks == Cardinality(GOrdinals) = Cardinality(GNonWild)

GLowest == SetMin(GOrdinals)

GHighest == SetMax(GOrdinals)

\* missing ordinals strictly between the lowest and the highest non-wild card
GGapSum == (GHighest - GLowest + 1) - Cardinality(GOrdinals)

GRemaining == GWildCount - GGapSum

\* at least 3 cards, a non-wild card, one suit, distinct ranks, gaps fillable
GWellFormedRun ==
    /\ Len(hand) >= 3
    /\ GNonWild # {}
    /\ GOneSuit
    /\ GDistinctRanks
    /\ GWildCount >= GGapSum

\* the run starts at a 3: a non-wild 3, or a wild 3 below a lowest non-wild 4
GStartsAt3 ==
    \/ GLowest = 0
    \/ /\ wild_rank = "3"
       /\ \E i \in DOMAIN hand : hand[i].rank = "3"
       /\ GLowest = 1

RunCalled == ret.op = "is_valid_run"

BookCalled == ret.op = "is_valid_book"

(***************************************************************************)
(* Claims about the validator (under SpecValidator)                        *)
(***************************************************************************)
\* C3, as claimed: is_valid_run returns true for every well-formed grouping
\* (3 or more cards, a non-wild card, non-wilds of one suit and of distinct
\* ranks, wilds >= gap sum) whose remaining wilds are at most
\* lowest_ordinal + (10 - highest_ordinal), runs touching 3 or K included.
C3_SlackRuleAccepts ==
    (RunCalled /\ GWellFormedRun /\ GRemaining <= GLowest + (10 - GHighest))
        => ret.ok

\* C3, amended: is_valid_run returns true for every well-formed grouping whose
\* remaining wilds are 0, or are at most lowest_ordinal + (10 - highest_ordinal)
\* while the run touches neither end of the rank range (its highest non-wild
\* card is not a K and it does not start at a 3).
C3_SlackRuleAwayFromEnds ==
    (/\ RunCalled
     /\ GWellFormedRun
     /\ GRemaining <= GLowest + (10 - GHighest)
     /\ (GRemaining > 0 => (GHighest # 10 /\ ~GStartsAt3)))
        => ret.ok

\* a run accepted with a wild left over to extend one of its ends
C3_Witness ==
    RunCalled /\ GWellFormedRun /\ GRemaining > 0 /\ GHighest # 10
      /\ ~GStartsAt3 /\ ret.ok

\* C4: is_valid_run returns false for every grouping with a wild left over
\* after the interior gaps are filled when its highest non-wild card is a K or
\* when it starts at a 3 (a non-wild 3, or a wild 3 below a lowest non-wild 4).
C4_NoWildPastKOrBelow3 ==
    (/\ RunCalled
     /\ GNonWild # {}
     /\ GRemaining >= 1
     /\ (GHighest = 10 \/ GStartsAt3))
        => ~ret.ok

\* an otherwise well-formed 4-card run ending at K with one wild left over,
\* rejected
C4_Witness ==
    RunCalled /\ Len(hand) = 4 /\ GWellFormedRun /\ GRemaining = 1
      /\ GHighest = 10 /\ ~GStartsAt3 /\ ~ret.ok

\* C5: is_valid_book returns true exactly when the grouping has 3 or more
\* cards, a non-wild card, one rank among the non-wild cards and no suit twice
\* among them; wild cards never count in the suit test.
C5_BookExactly ==
    BookCalled =>
        (ret.ok <=>
            /\ Len(hand) >= 3
            /\ GNonWild # {}
            /\ Cardinality({hand[i].rank : i \in GNonWild}) = 1
            /\ Cardinality({hand[i].suit : i \in GNonWild}) = Cardinality(GNonWild))

\* a book accepted although a wild-rank card in it has the suit of a non-wild
\* card of the book
C5_Witness ==
    /\ BookCalled
    /\ ret.ok
    /\ \E i \in DOMAIN hand \ GNonWild : \E j \in GNonWild :
           hand[i].suit = hand[j].suit

\* C6: is_valid_run returns false for every grouping with fewer than 3 cards,
\* or no non-wild card, or non-wild cards of more than one suit, or two
\* non-wild cards of one rank, or fewer wilds than missing ordinals between
\* its non-wild cards.
C6_RunRejects ==
    (/\ RunCalled
     /\ \/ Len(hand) < 3
        \/ GNonWild = {}
        \/ ~GOneSuit
        \/ ~GDistinctRanks
        \/ GWildCount < GGapSum)
        => ~ret.ok

\* a grouping of one suit and distinct ranks holding a wild, rejected because
\* its gaps need more wilds than it has
C6_Witness ==
    /\ RunCalled
    /\ Len(hand) >= 3
    /\ GNonWild # {}
    /\ GOneSuit
    /\ GDistinctRanks
    /\ GWildCount >= 1
    /\ GWildCount < GGapSum
    /\ ~ret.ok

(***************************************************************************)
(* What the claims say of a hand, stated on sets of hand positions         *)
(***************************************************************************)
HandObjects == Objects(hand)

\* the k-th smallest member of a set of positions
KthOf(S, k) == CHOOSE x \in S : Cardinality({y \in S : y < x}) = k - 1

\* the cards of the hand at the positions S, in hand order
SubHand(S) == [k \in 1..Cardinality(S) |-> HandObjects[KthOf(S, k)]]

IsBookSet(S) == Cardinality(S) >= 3 /\ is_valid_book(SubHand(S), wild_rank)

IsRunSet(S) == Cardinality(S) >= 3 /\ is_valid_run(SubHand(S), wild_rank)

RECURSIVE Partitionable(_)
\* the cards at the positions rest can be split into valid books and runs: the
\* lowest position lies in one of the groups
Partitionable(rest) ==
    \/ rest = {}
    \/ \E S \in SUBSET rest :
         /\ SetMin(rest) \in S
         /\ (IsBookSet(S) \/ IsRunSet(S))
         /\ Partitionable(rest \ S)

PointsOf(S) == SumSeq([k \in 1..Cardinality(S) |-> _card_value(SubHand(S)[k], wild_rank)])

RECURSIVE MaxSaved(_, _)
\* the most points a set of pairwise disjoint melds among cands can hold, using
\* the positions in free only
MaxSaved(cands, free) ==
    IF cands = {} THEN 0
    ELSE LET c == CHOOSE x \in cands : TRUE
             skip == MaxSaved(cands \ {c}, free)
         IN IF c \subseteq free
            THEN LET take == PointsOf(c) + MaxSaved(cands \ {c}, free \ c)
                 IN IF take > skip THEN take ELSE skip
            ELSE skip

\* the cards of a meld counted with multiplicity: (rank, suit) -> copies
MultisetOf(meld) ==
    [key \in _cards_to_frozenset(meld) |->
        Cardinality({i \in DOMAIN meld : <<meld[i].rank, meld[i].suit>> = key})]

NonWildIn(meld) == Cardinality({i \in DOMAIN meld : ~is_wild(meld[i], wild_rank)})

(***************************************************************************)
(* Claims about the meld search                                            *)
(***************************************************************************)
\* C1: can_go_out returns true if and only if the whole hand can be split into
\* pairwise card-disjoint valid books and runs.
C1_CanGoOutIffPartition ==
    ret.op = "can_go_out" => (ret.ok <=> Partitionable(DOMAIN hand))

\* C2: the leftover points find_best_meld_combination returns are the least
\* any set of pairwise card-disjoint melds of find_all_melds leaves.
C2_LeftoverIsLeast ==
    ret.op = "find_best_meld_combination" =>
        ret.remaining_points =
            PointsOf(DOMAIN hand)
              - MaxSaved({Ids(ret.all_melds[i]) : i \in DOMAIN ret.all_melds},
                         DOMAIN hand)

\* C7: every valid book that is a sub-collection of the hand is in the result
\* of find_all_books.
C7_AllBooksFound ==
    ret.op = "find_all_books" =>
        \A S \in SUBSET DOMAIN hand :
            IsBookSet(S) => \E i \in DOMAIN ret.melds : Ids(ret.melds[i]) = S

\* C8: every valid run that is a sub-collection of the hand is in the result
\* of find_all_runs, runs anchored by 1 or 2 real cards included.
C8_AllRunsFound ==
    ret.op = "find_all_runs" =>
        \A S \in SUBSET DOMAIN hand :
            IsRunSet(S) => \E i \in DOMAIN ret.melds : Ids(ret.melds[i]) = S

\* find_all_runs returned runs anchored by 1, by 2 and by 3 real cards
C8_Witness ==
    /\ ret.op = "find_all_runs"
    /\ \A n \in 1..3 : \E i \in DOMAIN ret.melds : NonWildIn(ret.melds[i]) = n

\* C9: a candidate meld is dropped as a duplicate only if a kept candidate
\* holds the same cards counted with multiplicity.
C9_DedupByMultiset ==
    ret.op = "find_best_meld_combination" =>
        \A i \in DOMAIN ret.all_melds :
            \E k \in DOMAIN ret.unique_melds :
                MultisetOf(ret.unique_melds[k]) = MultisetOf(ret.all_melds[i])

\* C10: the melds find_best_meld_combination returns are pairwise
\* card-disjoint, hold no card twice, are valid books or runs of cards of the
\* hand, and the leftover points are the hand's points less the melds' points.
C10_MeldsDisjointAndLeftover ==
    ret.op = "find_best_meld_combination" =>
        /\ \A i, j \in DOMAIN ret.melds : i # j =>
               Ids(ret.melds[i]) \cap Ids(ret.melds[j]) = {}
        /\ \A i \in DOMAIN ret.melds :
               /\ Cardinality(Ids(ret.melds[i])) = Len(ret.melds[i])
               /\ \A k \in DOMAIN ret.melds[i] :
                      /\ ret.melds[i][k].id \in DOMAIN hand
                      /\ ret.melds[i][k] = HandObjects[ret.melds[i][k].id]
               /\ \/ is_valid_book(ret.melds[i], wild_rank)
                  \/ is_valid_run(ret.melds[i], wild_rank)
        /\ ret.remaining_points =
               PointsOf(DOMAIN hand)
                 - SumSeq([i \in DOMAIN ret.melds |-> PointsOf(Ids(ret.melds[i]))])

\* find_best_meld_combination returned two melds
C10_Witness ==
    ret.op = "find_best_meld_combination" /\ Len(ret.melds) = 2

(***************************************************************************)
(* Claims about validate_all_melds (under SpecValidateAll)                 *)
(***************************************************************************)
ValidateAllCalled == ret.op = "validate_all_melds"

\* the meld has 3 or more cards and is a valid book or a valid run
MeldPasses(meld) ==
    /\ Len(meld) >= 3
    /\ is_valid_book(meld, wild_rank) \/ is_valid_run(meld, wild_rank)

TooSmallMessage(i, n) ==
    "Group " \o ToString(i) \o " has only " \o ToString(n) \o " cards (need 3+)"

NeitherMessage(i) == "Group " \o ToString(i) \o " is neither a valid book nor run"

\* melds put behind the first failing one: none, a meld of one card, a meld
\* that passes with jokers wild, a meld that never passes
LaterMelds ==
    {<<>>} \cup MeldListsOf(1, 1)
      \cup {<<<<Card("5", "HEARTS"), Card("5", "SPADES"), create_joker>>>>,
            <<<<Card("5", "HEARTS"), Card("5", "HEARTS"), Card("5", "SPADES")>>>>}

\* C11: validate_all_melds returns a valid result without a message if and
\* only if every meld has 3 or more cards and is a valid book or a valid run;
\* the empty list is valid.
C11_ValidIffEveryMeldPasses ==
    ValidateAllCalled =>
        /\ (ret.is_valid /\ ret.error_message = None)
              <=> \A i \in DOMAIN ret.melds : MeldPasses(ret.melds[i])
        /\ ret.melds = <<>> => ret.is_valid

\* two melds were laid down and found valid
C11_Witness ==
    /\ ValidateAllCalled
    /\ Len(ret.melds) = 2
    /\ ret.is_valid

\* C12: a failing result names the first failing meld only, by its position
\* counted from 1, with the too-small message and the meld's size when that
\* meld has fewer than 3 cards and the neither-book-nor-run message otherwise;
\* the melds behind it do not matter.
C12_FirstFailureReported ==
    (ValidateAllCalled /\ ~ret.is_valid) =>
        LET failing == {i \in DOMAIN ret.melds : ~MeldPasses(ret.melds[i])}
            f == CHOOSE i \in failing : \A k \in failing : i <= k
        IN /\ failing # {}
           /\ ret.error_message =
                 IF Len(ret.melds[f]) < 3
                 THEN TooSmallMessage(f, Len(ret.melds[f]))
                 ELSE NeitherMessage(f)
           /\ \A rest \in LaterMelds :
                 LET other == validate_all_melds(SubSeq(ret.melds, 1, f) \o rest,
                                                 wild_rank)
                 IN /\ other.is_valid = ret.is_valid
                    /\ other.error_message = ret.error_message

\* two melds fail, the first as neither book nor run, the second as too small
C12_Witness ==
    /\ ValidateAllCalled
    /\ Len(ret.melds) = 2
    /\ Len(ret.melds[1]) >= 3 /\ ~MeldPasses(ret.melds[1])
    /\ Len(ret.melds[2]) < 3
    /\ ret.error_message = NeitherMessage(1)

(***************************************************************************)
(* Claims about the engine (under SpecEngine)                              *)
(***************************************************************************)
\* the step is a call of try_go_out
TryGoOutStep == ret = NoCall /\ ret'.op = "try_go_out"

\* the hand of the current player
CurrentHand == state.players[current_player(state)].hand

\* the cards of all melds of the call, in one list
Declared(melds) == Flatten(melds)

\* the two card lists hold every card equally often
SameMultiset(s, t) ==
    \A card \in Range(s) \cup Range(t) : CountIn(s, card) = CountIn(t, card)

\* C13: try_go_out never succeeds with melds whose multiset of cards differs
\* from the current player's hand; the call fails and the player does not go
\* out.
C13_NoGoOutOnCardMismatch ==
    [][(TryGoOutStep /\ ~SameMultiset(Declared(ret'.melds), CurrentHand)) =>
          /\ ~ret'.success
          /\ state'.players = state.players
          /\ state'.round_over = state.round_over]_vars

\* C18: a failed try_go_out returns (False, message) with a message that is
\* not empty and leaves the current player's hand, the deck, the discard pile
\* and round_over as they were.
C18_FailureChangesNothing ==
    [][(TryGoOutStep /\ ~ret'.success) =>
          /\ ret'.raised = None
          /\ ret'.error # None /\ ret'.error # ""
          /\ state'.players[current_player(state)].hand = CurrentHand
          /\ state'.deck.cards = state.deck.cards
          /\ state'.deck.discard_pile = state.deck.discard_pile
          /\ state'.round_over = state.round_over]_vars

\* an attempt with as many cards as the hand and the cards of the hand failed
\* in validation, after the round was set up
C18_Witness ==
    /\ ret.op = "try_go_out"
    /\ ~ret.success
    /\ ret.error = NeitherMessage(1)
    /\ CurrentHand # <<>>
    /\ state.deck.discard_pile # <<>>

\* C19: try_go_out with melds that use exactly the cards of the current
\* player's hand and all pass validate_all_melds returns (True, None), empties
\* that hand and sets round_over, and leaves the other hands as they were.
C19_SuccessEmptiesHand ==
    [][(/\ TryGoOutStep
        /\ SameMultiset(Declared(ret'.melds), CurrentHand)
        /\ validate_all_melds(ret'.melds, get_wild_rank(state)).is_valid) =>
          /\ ret'.success /\ ret'.error = None
          /\ state'.players[current_player(state)].hand = <<>>
          /\ state'.round_over
          /\ \A i \in DOMAIN state.players :
                i # current_player(state) =>
                    state'.players[i].hand = state.players[i].hand]_vars

\* the current player went out with one meld while the other player holds
\* cards
C19_Witness ==
    /\ ret.op = "try_go_out"
    /\ ret.success
    /\ Len(ret.melds) = 1 /\ Len(ret.melds[1]) >= 3
    /\ state.round_over
    /\ CurrentHand = <<>>
    /\ \E i \in DOMAIN state.players : state.players[i].hand # <<>>

\* C20: a fresh Deck holds 116 cards: two of every rank 3..K in every one of
\* the 5 suits, 6 Jokers, and no discarded card.
C20_FreshDeck ==
    state.deck = Deck =>
        /\ Len(state.deck.cards) = 116
        /\ \A r \in Range(RANK_ORDER) :
              \A s \in {"SPADES", "HEARTS", "CLUBS", "DIAMONDS", "STARS"} :
                CountIn(state.deck.cards, Card(r, s)) = 2
        /\ CountIn(state.deck.cards, create_joker) = 6
        /\ state.deck.discard_pile = <<>>

\* the engine was built and the deck not yet shuffled or dealt
C20_Witness ==
    /\ state = GameEngine(PlayerNames)
    /\ state.deck = Deck
    /\ Len(state.deck.cards) > 0


(***************************************************************************)
(* A Joker's suit                                                          *)
(***************************************************************************)
\* suits a Joker card can carry: the one create_joker gives it, and another
JokerSuits == {"JOKER", "HEARTS"}

\* the hands that differ from h only in the suit field of Joker cards
Resuited(h) ==
    {h2 \in [DOMAIN h -> {Card("Joker", s) : s \in JokerSuits} \cup Range(h)] :
        \A i \in DOMAIN h :
            IF h[i].rank = "Joker" THEN h2[i].rank = "Joker" ELSE h2[i] = h[i]}

\* C14: no rule consults a Joker's suit: changing the suit field of Joker
\* cards of a hand leaves the results of is_valid_book, is_valid_run and
\* can_go_out on that hand unchanged.
C14_JokerSuitNeverConsulted ==
    ret.op = "can_go_out" =>
        \A h2 \in Resuited(hand) :
            /\ is_valid_book(h2, wild_rank) = is_valid_book(hand, wild_rank)
            /\ is_valid_run(h2, wild_rank) = is_valid_run(hand, wild_rank)
            /\ can_go_out(Objects(h2), wild_rank).ok = ret.ok


(***************************************************************************)
(* Claims about wild cards and card points (under SpecCard)                *)
(***************************************************************************)
\* C15: get_wild_card(n) returns the rank at ordinal n-1 of the order
\* 3,4,5,6,7,8,9,10,J,Q,K for every round n in 1..11, and fails with an error
\* instead of returning a rank for every n outside 1..11.
C15_WildCardOfRound ==
    ret.op = "get_wild_card" =>
        IF ret.round_number \in 1..11
        THEN /\ ret.result \in Range(RANK_ORDER)
             /\ RANK_VALUES(ret.result) = ret.round_number - 1
        ELSE /\ ret.result = ValueError
             /\ ret.result \notin Range(RANK_ORDER)

\* get_wild_card was asked for round 12 and raised
C15_Witness ==
    /\ ret.op = "get_wild_card"
    /\ ret.round_number = 12
    /\ ret.result = ValueError

\* C16: is_wild(card, wild_rank) is true exactly when the card's rank equals
\* wild_rank or the card's rank is Joker; a Joker is wild for every wild rank.
C16_WildIffRankOrJoker ==
    ret.op = "is_wild" =>
        /\ ret.result <=> (ret.card.rank = wild_rank \/ ret.card.rank = "Joker")
        /\ ret.card.rank = "Joker" => ret.result

\* a Joker was found wild in the round where Ks are wild
C16_Witness ==
    /\ ret.op = "is_wild"
    /\ ret.card.rank = "Joker"
    /\ wild_rank = "K"
    /\ ret.result

\* the face value of a rank 3..10 by its place in the order: 3 is at ordinal 0
FaceValue(rank) == RANK_VALUES(rank) + 3

\* the point value the rules give a card
PointValue(card) ==
    IF card.rank = wild_rank \/ card.rank = "Joker" THEN 20
    ELSE IF card.rank \in {"J", "Q", "K"} THEN 10
    ELSE FaceValue(card.rank)

RECURSIVE PointSum(_)
PointSum(cards) ==
    IF cards = <<>> THEN 0 ELSE PointValue(Head(cards)) + PointSum(Tail(cards))

\* C17: a card is worth 20 if it is wild, 10 if it is a J, Q or K that is not
\* wild, and its face value (3..10) otherwise; _card_value, _get_card_points
\* and the per-card sum of Player.calculate_hand_value compute this value.
C17_CardPointsAgree ==
    /\ ret.op \in {"_card_value", "_get_card_points"} =>
          ret.result = PointValue(ret.card)
    /\ ret.op = "calculate_hand_value" => ret.result = PointSum(hand)

\* a hand of a wild card and a face card that is not wild was valued at 30
C17_Witness ==
    /\ ret.op = "calculate_hand_value"
    /\ Len(hand) = 2
    /\ \E i, j \in DOMAIN hand :
          /\ hand[i].rank = wild_rank
          /\ hand[j].rank \in {"J", "Q", "K"} \ {wild_rank}
    /\ ret.result = 30


(***************************************************************************)
(* Claims about dealing a round (under SpecDeal)                           *)
(***************************************************************************)
\* C21: after start_new_round in round r (1 <= r <= 11) with 1 to 4 players,
\* every player holds exactly r+2 cards, the discard pile holds one card, the
\* deck holds 116 - players*(r+2) - 1 cards, current_player_index is 0 and
\* round_over is false.
C21_DealCounts ==
    [][(ret'.op = "start_new_round" /\ state.round_number \in 1..11) =>
          LET r == state.round_number
              n == Len(state.players)
          IN /\ Len(state'.players) = n
             /\ state'.round_number = r
             /\ \A i \in 1..n : Len(state'.players[i].hand) = r + 2
             /\ Len(state'.deck.discard_pile) = 1
             /\ Len(state'.deck.cards) = 116 - n * (r + 2) - 1
             /\ state'.current_player_index = 0
             /\ state'.round_over = FALSE]_vars

\* round 11 was dealt to four players: 13 cards each, 63 left in the deck
C21_Witness ==
    /\ ret.op = "start_new_round"
    /\ state.round_number = 11
    /\ Len(state.players) = 4
    /\ Len(state.deck.cards) = 116 - 4 * 13 - 1
    /\ \A i \in 1..4 : Len(state.players[i].hand) = 13


(***************************************************************************)
(* Relations between calls of the validator (under SpecValidator)          *)
(***************************************************************************)
\* the wild cards a wild card of the grouping can be replaced by
WildCards == {create_joker} \cup {Card(wild_rank, s) : s \in {"HEARTS", "SPADES"}}

\* C24: wild cards are interchangeable in run validation: replacing a wild
\* card of the grouping by another wild card (a Joker by a card of the round's
\* wild rank, or the reverse) never changes the result of is_valid_run.
C24_WildsInterchangeable ==
    RunCalled =>
        \A i \in DOMAIN hand :
            is_wild(hand[i], wild_rank) =>
                \A w \in WildCards :
                    is_valid_run([hand EXCEPT ![i] = w], wild_rank) = ret.ok


(***************************************************************************)
(* Claims about long groupings (under SpecLongRun)                         *)
(***************************************************************************)
\* the grouping got as far as the length check of line 178
ReachesLengthCheck ==
    /\ ret.op = "is_valid_run_exit"
    /\ ret.exit \notin {135, 141, 146, 156, 167}

\* C30: the length check of is_valid_run is redundant: for every grouping
\* that reaches it, len(cards) equals (highest_ordinal - lowest_ordinal + 1)
\* + remaining_wilds, so the check never rejects; and every grouping that
\* is_valid_run accepts has at most 11 cards.
C30_LengthCheckRedundant ==
    /\ ReachesLengthCheck =>
          /\ Len(hand) = (GHighest - GLowest + 1) + GRemaining
          /\ ret.exit # 179
    /\ ret.op = "is_valid_run_exit" =>
          /\ ret.ok <=> ret.exit = 223
          /\ ret.ok => Len(hand) <= 11

\* a grouping of 12 or more cards passed the length check and was rejected
\* because its left-over wilds do not fit between 3 and K
C30_Witness ==
    /\ ReachesLengthCheck
    /\ Len(hand) >= 12
    /\ ret.exit = 221
    /\ ~ret.ok


(***************************************************************************)
(* Claims about the order of a grouping (under SpecPermute)                *)
(***************************************************************************)
\* the grouping with the cards at positions i and j swapped
Swapped(i, j) == [hand EXCEPT ![i] = hand[j], ![j] = hand[i]]

\* the orders compared with the order of the call: each swap of two cards,
\* and the one order every ordering of the same cards is sorted into (by suit,
\* then rank).  Every ordering of up to MaxPermuted cards is validated, so
\* equal results on these give equal results on all orderings.
Reorderings ==
    {Swapped(i, j) : i, j \in DOMAIN hand} \cup {sort_hand(hand)}

\* C28: is_valid_book and is_valid_run give the same result for every
\* reordering of the grouping, and validate_all_melds gives the same validity
\* when the cards are reordered within each meld.
C28_OrderIrrelevant ==
    \A p \in Reorderings :
        /\ BookCalled => is_valid_book(p, wild_rank) = ret.ok
        /\ RunCalled => is_valid_run(p, wild_rank) = ret.ok
        /\ ValidateAllCalled =>
              /\ validate_all_melds(<<p, hand>>, wild_rank).is_valid = ret.is_valid
              /\ validate_all_melds(<<hand, p>>, wild_rank).is_valid = ret.is_valid

\* a run with a gap that a wild fills was accepted with the wild in front and
\* the highest card before the lowest
C28_Witness ==
    /\ RunCalled
    /\ ret.ok
    /\ hand = <<create_joker, Card("5", "HEARTS"), Card("3", "HEARTS")>>
    /\ wild_rank = "7"


(***************************************************************************)
(* Claims about the greedy selection (under SpecGreedy)                    *)
(***************************************************************************)
InGreedy == state # NoEngine /\ state.engine = "_greedy_meld_selection"

GreedyRunning == InGreedy /\ state.running

GreedyReturned == InGreedy /\ ~state.running

\* the meld a pass has added to the result
AddedMeld == state'.result[Len(state'.result)]

\* C29: _greedy_meld_selection terminates: each pass of its loop either stops
\* or adds one meld that uses at least 3 cards of the hand not used before and
\* has positive point value, so at most floor(len(hand) / 3) melds (4 for 13
\* cards) are ever selected, and the selection returns.
C29_GreedyTerminates ==
    /\ [][GreedyRunning =>
            \/ /\ ~state'.running
               /\ state'.result = state.result
               /\ ret'.result = state.result
            \/ /\ state'.running
               /\ Len(state'.result) = Len(state.result) + 1
               /\ Cardinality(Ids(AddedMeld) \ state.used_cards) >= 3
               /\ Ids(AddedMeld) \cap state.used_cards = {}
               /\ Ids(AddedMeld) \subseteq DOMAIN hand
               /\ _calculate_hand_value(AddedMeld, wild_rank) > 0
               /\ state'.used_cards = state.used_cards \cup Ids(AddedMeld)]_vars
    /\ [](InGreedy => Len(state.result) <= Len(hand) \div 3)
    /\ (GreedyRunning ~> GreedyReturned)

\* the selection returned four melds of a hand of 13 cards, three of them
\* added by passes of the loop
C29_Witness ==
    /\ GreedyReturned
    /\ ret.op = "_greedy_meld_selection"
    /\ Len(ret.result) = 4
    /\ Len(hand) = 13


(***************************************************************************)
(* Claims about going out with the melds found (under SpecGoOutStep)       *)
(***************************************************************************)
\* C23: whenever can_go_out returns (True, melds) for the current player's
\* hand, the try_go_out(melds) that follows succeeds: the melds hold as many
\* cards as the hand, the same set of cards, and pass validate_all_melds; the
\* turn does not fall through to a discard.
C23_FoundMeldsGoOut ==
    (ret.op = "go_out_step" /\ ret.can_go_out) =>
        /\ SumSeq([i \in DOMAIN ret.melds |-> Len(ret.melds[i])])
              = Len(ret.player_hand)
        /\ meld_cards_of(ret.melds) = Range(ret.player_hand)
        /\ validate_all_melds(ret.melds, wild_rank).is_valid
        /\ ret.raised = None
        /\ ret.success
        /\ ret.error = None
        /\ state.round_over
        /\ state.players[current_player(state)].hand = <<>>

\* a hand of six cards went out with the two melds can_go_out found
C23_Witness ==
    /\ ret.op = "go_out_step"
    /\ ret.can_go_out
    /\ ret.success
    /\ Len(ret.player_hand) = 6
    /\ Len(ret.melds) = 2


(***************************************************************************)
(* Claims about drawing and discarding (under SpecDraw)                    *)
(***************************************************************************)
\* how many copies of the card lie in the deck, the discard pile and the hands
RECURSIVE CopiesHeld(_, _, _)
CopiesHeld(players, card, i) ==
    IF i > Len(players) THEN 0
    ELSE CountIn(players[i].hand, card) + CopiesHeld(players, card, i + 1)

CopiesInPlay(card) ==
    CountIn(state.deck.cards, card) + CountIn(state.deck.discard_pile, card)
        + CopiesHeld(state.players, card, 1)

\* how many copies of each card a fresh deck holds
FreshCopies == [card \in DeckCards |-> CountIn(_initialize_deck, card)]

CardsInPlay ==
    Len(state.deck.cards) + Len(state.deck.discard_pile)
        + SumSeq([i \in DOMAIN state.players |-> Len(state.players[i].hand)])

\* C25: from the state start_new_round leaves, draw_card and discard_card keep
\* the deck, the discard pile and the hands at 116 cards in all and at the
\* multiset of the fresh deck; a call that raises (empty deck, empty discard
\* pile, card not in hand) changes nothing.
C25_CardsConserved ==
    /\ [](CardsInPlay = 116)
    /\ [](\A card \in DeckCards : CopiesInPlay(card) = FreshCopies[card])
    /\ [][ret'.raised # None => state' = state]_vars

\* the deck has been drawn empty and a further draw from it has raised
C25_Witness ==
    /\ ret.op = "draw_card"
    /\ ret.raised = "Deck is empty"
    /\ Len(state.deck.cards) = 0
    /\ Len(state.deck.discard_pile) > 0


(***************************************************************************)
(* Claims about a round at the table                                       *)
(***************************************************************************)
\* the computer is to play, and take_turn will choose the deck
ChoosesDeck ==
    /\ InLoop(state)
    /\ ~state.state.players[current_player(state.state)].is_human
    /\ ~(/\ decide_draw_source(state.state.players[current_player(state.state)].hand,
                               peek_discard(state.state.deck),
                               get_wild_rank(state.state))
         /\ can_draw_from_discard(state.state))

\* C27: during a round AIPlayer.take_turn never draws from an empty deck:
\* whenever it chooses the deck, the deck holds at least one card, and
\* draw_card does not fail with 'Deck is empty' (under SpecLongRound).
C27_DeckNeverEmptyForAI ==
    /\ ChoosesDeck => can_draw_from_deck(state.state)
    /\ state.raised # "Deck is empty"


\* the number of players at the table
NumPlayers == Len(state.state.players)

\* somebody has gone out
SomeoneOut == state.going_out_player_index # NoIndex

\* the final lap so far follows the seating order from the player after the
\* one who went out, and does not come back to that player
LapInSeatingOrder ==
    /\ Len(state.final_lap) <= NumPlayers - 1
    /\ \A k \in DOMAIN state.final_lap :
          state.final_lap[k] = (state.going_out_player_index + k) % NumPlayers

\* C22 as stated: once the first player has gone out every other player takes
\* exactly one more turn in seating order, the player who went out takes none,
\* and the round ends, round_over being set, exactly when the turn would
\* return to the player who went out; a later player going out in the final
\* lap changes neither who is recorded nor the length of the round.
C22_RoundOverWhenTurnReturns ==
    /\ [](SomeoneOut => LapInSeatingOrder)
    /\ [](state.returned => Len(state.final_lap) = NumPlayers - 1)
    /\ [](state.state.round_over <=> state.returned)
    /\ [][state'.returned # state.returned => BackAtGoingOut(state)]_vars
    /\ [][SomeoneOut =>
            /\ state'.going_out_player_index = state.going_out_player_index
            /\ state'.winner_name = state.winner_name]_vars

\* C22, amended: as above, but round_over is set from the moment the first
\* player goes out (try_go_out sets it), through the final lap; what happens
\* exactly when the turn would return to that player is that play_round
\* leaves its loop and returns.
C22_FinalLap ==
    /\ [](SomeoneOut => LapInSeatingOrder)
    /\ [](SomeoneOut =>
            state.winner_name
               = state.state.players[state.going_out_player_index + 1].name)
    /\ [](state.returned => /\ Len(state.final_lap) = NumPlayers - 1
                            /\ BackAtGoingOut(state))
    /\ []((BackAtGoingOut(state) /\ state.raised = None)
             => Len(state.final_lap) = NumPlayers - 1)
    /\ [](state.state.round_over <=> SomeoneOut)
    /\ [][state'.returned # state.returned => BackAtGoingOut(state)]_vars
    /\ [][state'.turns_taken # state.turns_taken => ~BackAtGoingOut(state)]_vars
    /\ [][SomeoneOut =>
            /\ state'.going_out_player_index = state.going_out_player_index
            /\ state'.winner_name = state.winner_name]_vars

\* three at the table: the person went out first, the computer opponents went
\* out in the final lap, and play_round has returned
C22_Witness ==
    /\ state.returned
    /\ NumPlayers = 3
    /\ state.going_out_player_index = 0
    /\ state.winner_name = "Player"
    /\ state.final_lap = <<1, 2>>
    /\ state.gone_out = {0, 1, 2}

\* C26: at every turn boundary of round r every player who has not gone out
\* holds exactly r + 2 cards and every player who has gone out holds none: a
\* turn draws one card and then either goes out or discards one card.
C26_HandSizesAtTurnBoundaries ==
    \A i \in DOMAIN state.state.players :
        Len(state.state.players[i].hand)
            = IF (i - 1) \in state.gone_out THEN 0
              ELSE get_cards_per_hand(state.state)

\* after three turns one player has gone out and the turn is with a player
\* who has not
C26_Witness ==
    /\ state.turns_taken = 3
    /\ Cardinality(state.gone_out) = 1
    /\ state.state.current_player_index \notin state.gone_out
    /\ state.raised = None

=============================================================================
